---- MODULE Spec2Model ----
(***************************************************************************)
(* A model of the pull-request review agent: the unified-diff parser       *)
(* (app/utils/diff_parser.py), the analyzers (app/agents/*_agent.py), the  *)
(* refinement pass (app/agents/senior_engineer_agent.py) and the           *)
(* controller that runs them (app/controllers/review_controller.py).       *)
(*                                                                         *)
(* Text is modelled character by character: a line is a sequence of        *)
(* one-character strings, a diff text is the sequence of its lines (the    *)
(* result of diff_text.split('\n')).                                       *)
(***************************************************************************)
EXTENDS Integers, Sequences, FiniteSets, TLC

(***************************************************************************)
(* Bounds of the model.                                                    *)
(***************************************************************************)
\* longest diff text (in lines) drawn from LinePool
MaxLines == 3
\* longest hunk body (in lines) drawn from BodyPool
MaxBody == 3
\* length of the one over-long digit run the model knows (see LongDigits)
LongRunLen == 4301

(***************************************************************************)
(* Characters and strings.                                                 *)
(***************************************************************************)
\* One element of a line that stands for a run of LongRunLen digits '9'.
LongDigits == "9{long}"

Digits == {"0", "1", "2", "3", "4", "5", "6", "7", "8", "9"}

DigitVal(c) ==
    CASE c = "0" -> 0 [] c = "1" -> 1 [] c = "2" -> 2 [] c = "3" -> 3
      [] c = "4" -> 4 [] c = "5" -> 5 [] c = "6" -> 6 [] c = "7" -> 7
      [] c = "8" -> 8 [] c = "9" -> 9

\* regular-expression class \d
IsDigit(c) == c \in Digits \/ c = LongDigits

\* regular-expression class \s
IsSpace(c) == c \in {" ", "\t", "\r"}

\* number of characters an element of a line stands for
Width(c) == IF c = LongDigits THEN LongRunLen ELSE 1

\* str.startswith
StartsWith(s, p) == Len(s) >= Len(p) /\ SubSeq(s, 1, Len(p)) = p

\* s[1:]
Tail1(s) == SubSeq(s, 2, Len(s))

RECURSIVE StrLen(_)
StrLen(s) == IF s = <<>> THEN 0 ELSE Width(Head(s)) + StrLen(Tail(s))

\* CPython refuses to convert a decimal string of more than this many digits
\* (sys.int_info.default_max_str_digits): int() raises ValueError.
MaxStrDigits == 4300

RECURSIVE DecValue(_, _)
DecValue(ds, acc) ==
    IF ds = <<>> THEN acc ELSE DecValue(Tail(ds), acc * 10 + DigitVal(Head(ds)))

\* int(s) for a string of digits: [raised, value]
PyInt(ds) ==
    IF StrLen(ds) > MaxStrDigits
    THEN [raised |-> TRUE, value |-> 0]
    ELSE [raised |-> FALSE, value |-> DecValue(ds, 0)]

\* str(n) for n >= 0
RECURSIVE PyStr(_)
PyStr(n) ==
    LET d == <<CHOOSE c \in Digits : DigitVal(c) = n % 10>>
    IN  IF n < 10 THEN d ELSE PyStr(n \div 10) \o d

(***************************************************************************)
(* The two regular expressions of the parser.                              *)
(***************************************************************************)
\* first index >= p of s that holds no digit (the end of the run \d* at p)
DigitRunEnd(s, p) ==
    p + Cardinality({e \in p..Len(s) : \A k \in p..e : IsDigit(s[k])})

\* first index >= p of s that holds no white space (the end of \s* at p)
SpaceRunEnd(s, p) ==
    p + Cardinality({e \in p..Len(s) : \A k \in p..e : IsSpace(s[k])})

LitAt(s, p, lit) ==
    /\ p >= 1
    /\ p + Len(lit) - 1 <= Len(s)
    /\ SubSeq(s, p, p + Len(lit) - 1) = lit

\* (?:,(\d+))? at e1: the index after the group, e1 when the group is absent
CountGroupEnd(s, e1) ==
    IF LitAt(s, e1, <<",">>) /\ DigitRunEnd(s, e1 + 1) > e1 + 1
    THEN DigitRunEnd(s, e1 + 1)
    ELSE e1

\* (\d+)(?:,(\d+))? at p, the digits ending before e1 and the whole before e2:
\* [ok, num, cnt, next]; cnt = <<>> is an absent group
NumberPairAt(s, p, e1, e2) ==
    [ok |-> e1 > p,
     num |-> SubSeq(s, p, e1 - 1),
     cnt |-> IF e2 > e1 THEN SubSeq(s, e1 + 1, e2 - 1) ELSE <<>>,
     next |-> e2]

NumberPairEnds(s, p, e1) == NumberPairAt(s, p, e1, CountGroupEnd(s, e1))

NumberPair(s, p) == NumberPairEnds(s, p, DigitRunEnd(s, p))

NoHunkMatch == [ok |-> FALSE, g1 |-> <<>>, g2 |-> <<>>, g3 |-> <<>>, g4 |-> <<>>]

\* r'@@ -(\d+)(?:,(\d+))? \+(\d+)(?:,(\d+))? @@' matched at index p, given
\* the two number pairs
HunkRegexPairs(s, p, old, new) ==
    IF  /\ LitAt(s, p, <<"@", "@", " ", "-">>)
        /\ old.ok
        /\ LitAt(s, old.next, <<" ", "+">>)
        /\ new.ok
        /\ LitAt(s, new.next, <<" ", "@", "@">>)
    THEN [ok |-> TRUE, g1 |-> old.num, g2 |-> old.cnt,
          g3 |-> new.num, g4 |-> new.cnt]
    ELSE NoHunkMatch

HunkRegexOld(s, p, old) == HunkRegexPairs(s, p, old, NumberPair(s, old.next + 2))

HunkRegexAt(s, p) == HunkRegexOld(s, p, NumberPair(s, p + 4))

\* the least element of a non-empty set of integers
Least(S) == CHOOSE p \in S : \A q \in S : p <= q

HunkRegexFirst(s, ps) == IF ps = {} THEN NoHunkMatch ELSE HunkRegexAt(s, Least(ps))

\* re.search of the hunk-header pattern: the leftmost match
HunkRegex(s) == HunkRegexFirst(s, {p \in 1..Len(s) : HunkRegexAt(s, p).ok})

\* r'a/(.+?)\s+b/(.+?)$': the matches <<a, w>> with 'a/' at a, group 1 the
\* characters a+2..w-1, white space from w on, then 'b/' and a non-empty rest
FileRegexMatches(s) ==
    {m \in (1..Len(s)) \X (1..Len(s)) :
        /\ LitAt(s, m[1], <<"a", "/">>)
        /\ m[2] >= m[1] + 3
        /\ IsSpace(s[m[2]])
        /\ LitAt(s, SpaceRunEnd(s, m[2]), <<"b", "/">>)
        /\ SpaceRunEnd(s, m[2]) + 2 <= Len(s)}

\* the match the engine finds: leftmost start, then shortest group 1
FileRegexBest(ms) ==
    CHOOSE m \in ms : \A n \in ms : m[1] < n[1] \/ (m[1] = n[1] /\ m[2] <= n[2])

\* group 2 runs from after 'b/' to the end of the line
FileRegexPick(s, ms) ==
    IF ms = {}
    THEN [ok |-> FALSE, g2 |-> <<>>]
    ELSE [ok |-> TRUE,
          g2 |-> SubSeq(s, SpaceRunEnd(s, FileRegexBest(ms)[2]) + 2, Len(s))]

\* re.search of the file-header pattern
FileRegex(s) == FileRegexPick(s, FileRegexMatches(s))

(***************************************************************************)
(* DiffParser.parse_unified_diff.                                          *)
(*                                                                         *)
(* The parser builds dicts and lists that it keeps references to, so the   *)
(* model has a heap: dicts[r] is the file dict with reference r (0 is      *)
(* None), lists[r] the list object with reference r.  A file dict's        *)
(* 'hunks' holds a list reference.                                         *)
(***************************************************************************)
W_diff == <<"d", "i", "f", "f">>
W_diff_git == W_diff \o <<" ", "-", "-", "g", "i", "t">>
W_new_file == <<"n", "e", "w", " ", "f", "i", "l", "e">>
W_deleted_file == <<"d", "e", "l", "e", "t", "e", "d", " ", "f", "i", "l", "e">>
W_at == <<"@", "@">>
W_modified == "modified"

\* lines 16-21: the state before the loop
ParserStart ==
    [i |-> 0, files |-> <<>>, current_file |-> 0, current_hunks |-> 1,
     dicts |-> <<>>, lists |-> << <<>> >>, raised |-> FALSE]

\* lines 29-31: flush the current file dict, if any
SavePrevious(st) ==
    IF st.current_file # 0
    THEN [st EXCEPT !.dicts[st.current_file].hunks = st.current_hunks,
                    !.files = Append(st.files, st.current_file)]
    ELSE st

\* lines 35-44: the new file dict, when the header pattern matched (m)
NewFileMatched(st, m) ==
    IF m.ok
    THEN [st EXCEPT
            !.dicts = Append(st.dicts,
                        [filename |-> m.g2, status |-> W_modified,
                         additions |-> 0, deletions |-> 0,
                         hunks |-> Len(st.lists) + 1]),
            !.lists = st.lists \o << <<>>, <<>> >>,
            !.current_file = Len(st.dicts) + 1,
            !.current_hunks = Len(st.lists) + 2]
    ELSE st

\* lines 34-44: start a new file dict when the header matches
NewFile(st, line) == NewFileMatched(st, FileRegex(line))

\* lines 47-52: a status marker
SetStatus(st, status) ==
    IF st.current_file # 0
    THEN [st EXCEPT !.dicts[st.current_file].status = status]
    ELSE st

\* lines 83-84 and 92-93: the running totals of the current file dict
CountAddition(st) ==
    IF st.current_file # 0
    THEN [st EXCEPT !.dicts[st.current_file].additions = @ + 1]
    ELSE st

CountDeletion(st) ==
    IF st.current_file # 0
    THEN [st EXCEPT !.dicts[st.current_file].deletions = @ + 1]
    ELSE st

\* line 76, 85 and 94: the class of a hunk line
IsAddLine(l) == StartsWith(l, <<"+">>) /\ ~StartsWith(l, <<"+", "+", "+">>)
IsRemoveLine(l) == StartsWith(l, <<"-">>) /\ ~StartsWith(l, <<"-", "-", "-">>)
IsContextLine(l) == StartsWith(l, <<" ">>)

LineChange(content, change_type, line_number) ==
    [content |-> content, change_type |-> change_type,
     line_number |-> line_number]

\* a parser with one shared line counter: every recorded line advances both
\* cursors
HunkLineStep_SharedCursor(c, l) ==
    IF IsAddLine(l)
    THEN [c EXCEPT !.hl = Append(@, LineChange(Tail1(l), "add", c.new_start)),
                   !.old_start = @ + 1,
                   !.new_start = @ + 1]
    ELSE IF IsRemoveLine(l)
    THEN [c EXCEPT !.hl = Append(@, LineChange(Tail1(l), "remove", c.old_start)),
                   !.old_start = @ + 1,
                   !.new_start = @ + 1]
    ELSE IF IsContextLine(l)
    THEN [c EXCEPT !.hl = Append(@, LineChange(Tail1(l), "context", c.new_start)),
                   !.old_start = @ + 1,
                   !.new_start = @ + 1]
    ELSE c

\* lines 77-82, 86-91, 95-101: what one hunk line does to the two cursors
\* and to the hunk's lines; c = [hl, old_start, new_start]
HunkLineStep(c, l) ==
    IF IsAddLine(l)
    THEN [c EXCEPT !.hl = Append(@, LineChange(Tail1(l), "add", c.new_start)),
                   !.new_start = @ + 1]
    ELSE IF IsRemoveLine(l)
    THEN [c EXCEPT !.hl = Append(@, LineChange(Tail1(l), "remove", c.old_start)),
                   !.old_start = @ + 1]
    ELSE IF IsContextLine(l)
    THEN [c EXCEPT !.hl = Append(@, LineChange(Tail1(l), "context", c.new_start)),
                   !.old_start = @ + 1,
                   !.new_start = @ + 1]
    ELSE c

\* line 73: the inner loop goes on
HunkLoopGuard(ls, j) ==
    /\ j < Len(ls)
    /\ ~StartsWith(ls[j + 1], W_at)
    /\ ~StartsWith(ls[j + 1], W_diff)

\* a parser whose running totals leave the removed lines out
CountLine_NoDeletions(st, l) ==
    IF IsAddLine(l) THEN CountAddition(st) ELSE st

\* lines 83-84 and 92-93 for the hunk line l
CountLine(st, l) ==
    IF IsAddLine(l) THEN CountAddition(st)
    ELSE IF IsRemoveLine(l) THEN CountDeletion(st)
    ELSE st

\* lines 73-103: the inner loop over the lines of a hunk;
\* returns [st, c] with st.i the index of the line that stopped it
RECURSIVE HunkLoop(_, _, _)
HunkLoop(ls, st, c) ==
    IF HunkLoopGuard(ls, st.i)
    THEN HunkLoop(ls, [CountLine(st, ls[st.i + 1]) EXCEPT !.i = @ + 1],
                  HunkLineStep(c, ls[st.i + 1]))
    ELSE [st |-> st, c |-> c]

\* lines 59 and 61: the count of a hunk header, 1 when the group is absent
HunkCount(g) == IF g # <<>> THEN PyInt(g) ELSE [raised |-> FALSE, value |-> 1]

\* lines 63-69 and 105-106: the hunk is appended to current_hunks and the
\* index steps back onto the line that ended the inner loop (r)
HunkAppend(st, old_start, old_count, new_start, new_count, r) ==
    [r.st EXCEPT
        !.lists[st.current_hunks] =
            Append(@, [old_start |-> old_start, old_count |-> old_count,
                       new_start |-> new_start, new_count |-> new_count,
                       lines |-> r.c.hl]),
        !.i = @ - 1]

\* lines 58-106, given the four converted numbers
HunkHeaderNumbers(ls, st, n1, n2, n3, n4) ==
    IF n1.raised \/ n2.raised \/ n3.raised \/ n4.raised
    THEN [st EXCEPT !.raised = TRUE]
    ELSE HunkAppend(st, n1.value, n2.value, n3.value, n4.value,
                    HunkLoop(ls, [st EXCEPT !.i = @ + 1],
                             [hl |-> <<>>, old_start |-> n1.value,
                              new_start |-> n3.value]))

\* lines 57-106, given the match m of the hunk-header pattern
HunkHeaderMatched(ls, st, m) ==
    IF m.ok
    THEN HunkHeaderNumbers(ls, st, PyInt(m.g1), HunkCount(m.g2),
                           PyInt(m.g3), HunkCount(m.g4))
    ELSE st

\* lines 56-106: a line that starts with '@@'
HunkHeader(ls, st, line) == HunkHeaderMatched(ls, st, HunkRegex(line))

\* lines 27-106: the branch the line selects
Dispatch(ls, st, line) ==
    IF StartsWith(line, W_diff_git)
    THEN NewFile(SavePrevious(st), line)
    ELSE IF StartsWith(line, W_new_file)
    THEN SetStatus(st, "added")
    ELSE IF StartsWith(line, W_deleted_file)
    THEN SetStatus(st, "removed")
    ELSE IF StartsWith(line, W_at)
    THEN HunkHeader(ls, st, line)
    ELSE st

\* line 108: i += 1 (not reached when the turn raised)
Advance(st) == IF st.raised THEN st ELSE [st EXCEPT !.i = @ + 1]

\* lines 24-108: one turn of the outer loop
LoopBody(ls, st) == Advance(Dispatch(ls, st, ls[st.i + 1]))

\* Hunk(**h) and FilePatch(**f), line 120
FilePatch(f, ls) ==
    [filename |-> f.filename, status |-> f.status,
     additions |-> f.additions, deletions |-> f.deletions,
     hunks |-> ls[f.hunks], language |-> "None"]

\* line 120: the records of the file dicts in files
Converted(st) ==
    [k \in 1..Len(st.files) |-> FilePatch(st.dicts[st.files[k]], st.lists)]

\* lines 111-120: after the loop
Finish(st) == Converted(SavePrevious(st))

\* parse_unified_diff as a function: [raised, files]
RECURSIVE ParseFrom(_, _)
ParseFrom(ls, st) ==
    IF st.raised THEN [raised |-> TRUE, files |-> <<>>]
    ELSE IF st.i < Len(ls) THEN ParseFrom(ls, LoopBody(ls, st))
    ELSE [raised |-> FALSE, files |-> Finish(st)]

parse_unified_diff(ls) == ParseFrom(ls, ParserStart)

(***************************************************************************)
(* Diff texts the parser is run on.                                        *)
(***************************************************************************)
\* 'diff --git a/x b/x'
L_file_x == W_diff_git \o <<" ", "a", "/", "x", " ", "b", "/", "x">>
\* 'diff --git x x': a header without the a/ and b/ prefixes
L_file_noprefix == W_diff_git \o <<" ", "x", " ", "x">>
\* 'diff --git a/p b/y b/z': a header whose paths hold ' b/'
L_file_amb ==
    W_diff_git \o <<" ", "a", "/", "p", " ", "b", "/", "y", " ", "b", "/", "z">>
\* 'new file' and 'deleted file' (the mode that follows is not read)
L_new_file == W_new_file
L_deleted_file == W_deleted_file
\* '@@ -1 +1 @@'
L_hunk_1_1 == <<"@", "@", " ", "-", "1", " ", "+", "1", " ", "@", "@">>
\* '@@ -2,1 +3,2 @@'
L_hunk_2_3 ==
    <<"@", "@", " ", "-", "2", ",", "1", " ", "+", "3", ",", "2", " ", "@", "@">>
\* '@@ -1,1 +1,2 @@'
L_hunk_1_2 ==
    <<"@", "@", " ", "-", "1", ",", "1", " ", "+", "1", ",", "2", " ", "@", "@">>
\* '@@ -4,2 +4,2 @@'
L_hunk_4_4 ==
    <<"@", "@", " ", "-", "4", ",", "2", " ", "+", "4", ",", "2", " ", "@", "@">>
\* '@@ bad @@': a hunk header the pattern does not match
L_hunk_bad == <<"@", "@", " ", "b", "a", "d", " ", "@", "@">>
\* '@@ -1 +999...9 @@' with LongRunLen digits in the new start
L_hunk_long == <<"@", "@", " ", "-", "1", " ", "+", LongDigits, " ", "@", "@">>
L_add == <<"+", "n">>
L_remove == <<"-", "o">>
L_context == <<" ", "c">>
\* '+++i': the added line '++i'
L_add_pp == <<"+", "+", "+", "i">>
\* '--- k': the removed line '-- k'
L_remove_mm == <<"-", "-", "-", " ", "k">>
\* '\ No newline at end of file'
L_no_newline == <<"\\", " ", "N", "o">>
L_empty == <<>>

LinePool ==
    {L_file_x, L_file_noprefix, L_file_amb, L_new_file, L_deleted_file,
     L_hunk_1_1, L_hunk_2_3, L_hunk_bad, L_hunk_long,
     L_add, L_remove, L_context, L_empty}

HunkHeaderPool == {L_hunk_1_1, L_hunk_1_2, L_hunk_2_3, L_hunk_4_4}

BodyPool ==
    {L_add, L_remove, L_context, L_add_pp, L_remove_mm, L_no_newline,
     L_hunk_2_3}

\* the sequences over S of length at most n
SeqsUpTo(S, n) == UNION {[1..k -> S] : k \in 0..n}

\* the scenario of the specification:
\* "diff --git a/x.py b/x.py\n@@ -1,1 +1,2 @@\n-old\n+new1\n+new2\n"
ScenarioDiff ==
    << W_diff_git \o <<" ", "a", "/", "x", ".", "p", "y", " ",
                       "b", "/", "x", ".", "p", "y">>,
       L_hunk_1_2,
       <<"-", "o", "l", "d">>,
       <<"+", "n", "e", "w", "1">>,
       <<"+", "n", "e", "w", "2">>,
       <<>> >>

ParserTexts == SeqsUpTo(LinePool, MaxLines)

HunkTexts ==
    {<<L_file_x, h>> \o b : h \in HunkHeaderPool, b \in SeqsUpTo(BodyPool, MaxBody)}
        \cup {ScenarioDiff}

(***************************************************************************)
(* The test-only helper that writes a FilePatch back as unified-diff text: *)
(* the file header, the status marker, and each hunk as its header         *)
(* followed by its lines with their '+', '-' or ' ' prefix.                *)
(***************************************************************************)
SerializeHeader(p) ==
    W_diff_git \o <<" ", "a", "/">> \o p.filename \o <<" ", "b", "/">> \o p.filename

SerializeStatus(p) ==
    IF p.status = "added" THEN <<W_new_file>>
    ELSE IF p.status = "removed" THEN <<W_deleted_file>>
    ELSE <<>>

SerializeLine(l) ==
    (IF l.change_type = "add" THEN <<"+">>
     ELSE IF l.change_type = "remove" THEN <<"-">>
     ELSE <<" ">>) \o l.content

SerializeHunk(h) ==
    << W_at \o <<" ", "-">> \o PyStr(h.old_start) \o <<",">> \o PyStr(h.old_count)
            \o <<" ", "+">> \o PyStr(h.new_start) \o <<",">> \o PyStr(h.new_count)
            \o <<" ">> \o W_at >>
        \o [k \in 1..Len(h.lines) |-> SerializeLine(h.lines[k])]

RECURSIVE SerializeHunks(_)
SerializeHunks(hs) ==
    IF hs = <<>> THEN <<>> ELSE SerializeHunk(Head(hs)) \o SerializeHunks(Tail(hs))

Serialize(p) == <<SerializeHeader(p)>> \o SerializeStatus(p) \o SerializeHunks(p.hunks)

(***************************************************************************)
(* Python values whose type the code does not know in advance (what        *)
(* json.loads returns, the values of a finding) carry their type t and     *)
(* hold the value in the field of that type: s for a str, n for an int, a  *)
(* for a list, o for a dict.  A dict known to be a dict is a function from *)
(* its keys to such values.                                                *)
(***************************************************************************)
EmptyDict == [k \in {} |-> 0]

Value(t, s, n, a, o) == [t |-> t, s |-> s, n |-> n, a |-> a, o |-> o]

Str(s) == Value("string", s, 0, <<>>, EmptyDict)
Num(n) == Value("number", "", n, <<>>, EmptyDict)
Arr(a) == Value("array", "", 0, a, EmptyDict)
Obj(o) == Value("object", "", 0, <<>>, o)
Null == Value("null", "", 0, <<>>, EmptyDict)

\* dict.get(k, default)
Get(d, k, default) == IF k \in DOMAIN d THEN d[k] ELSE default

\* bool(x)
Truthy(x) ==
    CASE x.t = "array" -> x.a # <<>>
      [] x.t = "string" -> x.s # ""
      [] x.t = "object" -> DOMAIN x.o # {}
      [] x.t = "number" -> x.n # 0
      [] OTHER -> FALSE

\* key in x.  None and numbers raise TypeError; for a string the test is a
\* substring test: of the strings of the model only the key contains the key.
Contains(x, key) ==
    CASE x.t = "object" -> [raised |-> FALSE, value |-> key \in DOMAIN x.o]
      [] x.t = "array" ->
            [raised |-> FALSE, value |-> \E n \in 1..Len(x.a) : x.a[n] = Str(key)]
      [] x.t = "string" -> [raised |-> FALSE, value |-> x.s = key]
      [] OTHER -> [raised |-> TRUE, value |-> FALSE]

\* the number of leading elements of the sequence s that are dicts
ObjPrefixLen(s) ==
    Cardinality({n \in 1..Len(s) : \A k \in 1..n : s[k].t = "object"})

\* for issue in x: {**issue}: the dicts reached before the loop ends or a
\* TypeError is raised (x is not iterable, or an element is no mapping)
IterateObjects(x) ==
    CASE x.t = "array" ->
            [raised |-> ObjPrefixLen(x.a) < Len(x.a),
             items |-> SubSeq(x.a, 1, ObjPrefixLen(x.a))]
      [] x.t \in {"string", "object"} -> [raised |-> Truthy(x), items |-> <<>>]
      [] OTHER -> [raised |-> TRUE, items |-> <<>>]

(***************************************************************************)
(* GeminiService.  A reply of the backend is an error (the request failed  *)
(* or timed out) or a text: [kind, fence, body], the body a JSON value or  *)
(* NotJson, the fence the markdown marker the text is wrapped in.          *)
(***************************************************************************)
NotJson == Value("notjson", "", 0, <<>>, EmptyDict)

BackendError == [kind |-> "error", fence |-> "none", body |-> NotJson]
Text(fence, body) == [kind |-> "text", fence |-> fence, body |-> body]

\* gemini_service.py lines 63-70: the markdown fence is cut off
Cleaned(text) == [text EXCEPT !.fence = "none"]

\* line 81: the dict returned when the text is not JSON
ParseFailure ==
    Obj([files |-> Arr(<<>>), error |-> Str("Failed to parse AI response")])

\* lines 73-81: json.loads of the cleaned text
JsonLoads(text) ==
    IF text.fence # "none" \/ text.body = NotJson
    THEN [raised |-> FALSE, value |-> ParseFailure]
    ELSE [raised |-> FALSE, value |-> text.body]

\* generate_json_response (lines 52-85) and analyze_code (line 104):
\* [raised, value]
generate_json_response(reply) ==
    IF reply.kind = "error"
    THEN [raised |-> TRUE, value |-> Null]
    ELSE JsonLoads(Cleaned(reply))

(***************************************************************************)
(* ReviewerAgent.analyze, SecurityAgent.analyze, PerformanceAgent.analyze: *)
(* the three differ in agent_name and in the analysis type only.           *)
(*                                                                         *)
(* An element of parsed_files is [t |-> "dict", v |-> the dict] or         *)
(* [t |-> "FilePatch", v |-> the record]: a FilePatch has no get method.   *)
(***************************************************************************)
AgentNames == {"Code Reviewer", "Security Auditor", "Performance Analyst"}

\* str.strip() == '' for the lines joined by '\n'
IsBlank(added_lines) ==
    \A n \in 1..Len(added_lines) :
        \A k \in 1..Len(added_lines[n].content) :
            IsSpace(added_lines[n].content[k])

\* lines 27-34: the file is sent to the backend
NeedsCall(fd) ==
    /\ Get(fd, "added_lines", <<>>) # <<>>
    /\ ~IsBlank(Get(fd, "added_lines", <<>>))

\* lines 53-58: the finding made of one issue dict
Finding(agent, fd, issue) ==
    issue.o @@ [file |-> Str(Get(fd, "file_name", "unknown")),
                line |-> Num(fd["added_lines"][1].line_number),
                agent |-> Str(agent)]

\* lines 52-58: the findings of the issues reached
Findings(agent, fd, items) ==
    [n \in 1..Len(items) |-> Finding(agent, fd, items[n])]

NoItems == [raised |-> FALSE, items |-> <<>>]

\* line 51, given the result of '"issues" in analysis'
IssuesFound(analysis, has) ==
    IF has.raised THEN [raised |-> TRUE, items |-> <<>>]
    ELSE IF ~has.value THEN NoItems
    ELSE IF analysis.t # "object" THEN [raised |-> TRUE, items |-> <<>>]
    ELSE IF ~Truthy(analysis.o["issues"]) THEN NoItems
    ELSE IterateObjects(analysis.o["issues"])

\* lines 51-52: the issue dicts of the analysis that the loop reaches
Issues(analysis) == IssuesFound(analysis, Contains(analysis, "issues"))

\* lines 38-63, given what analyze_code did: an exception is caught and the
\* findings appended before it stay
Reached(got) == IF got.raised THEN NoItems.items ELSE Issues(got.value).items

\* lines 38-63: the findings one file adds to results
Contribution(agent, fd, reply) ==
    Findings(agent, fd, Reached(generate_json_response(reply)))

\* the mark of a file for which no request was sent
NoCall == [kind |-> "nocall", fence |-> "none", body |-> NotJson]

\* lines 38-63: one turn of the loop for a file that is sent; items are the
\* findings it adds
AddFindings(st, reply, items) ==
    [st EXCEPT !.results = @ \o items,
               !.origin = @ \o [n \in 1..Len(items) |-> st.idx + 1],
               !.calls = Append(@, st.idx + 1),
               !.replies = Append(@, reply),
               !.idx = @ + 1]

\* one turn of a loop that sends the request again when the backend failed
AnalyzeTurn_Resend(agent, st, file, reply) ==
    IF file.t # "dict"
    THEN [st EXCEPT !.raised = TRUE]
    ELSE IF ~NeedsCall(file.v)
    THEN [st EXCEPT !.replies = Append(@, NoCall), !.idx = @ + 1]
    ELSE IF reply.kind = "error"
    THEN [AddFindings(st, reply, <<>>) EXCEPT !.calls = Append(@, st.idx + 1)]
    ELSE AddFindings(st, reply, Contribution(agent, file.v, reply))

\* one turn of a loop without the two 'continue' of lines 27-34: the request
\* is sent for a file that has no added text too
AnalyzeTurn_NoSkip(agent, st, file, reply) ==
    IF file.t # "dict"
    THEN [st EXCEPT !.raised = TRUE]
    ELSE IF ~NeedsCall(file.v)
    THEN AddFindings(st, reply, <<>>)
    ELSE AddFindings(st, reply, Contribution(agent, file.v, reply))

\* one turn of a loop that reads a FilePatch as it reads the dict of a.py
\* and finds one issue in it
AnalyzeTurn_ReadsPatch(agent, st, file, reply) ==
    IF file.t # "dict"
    THEN AddFindings(st, reply,
                     Findings(agent,
                              [file_name |-> "a.py",
                               added_lines |-> <<[content |-> <<"x">>,
                                                  line_number |-> 1]>>],
                              <<Obj([message |-> Str("m")])>>))
    ELSE IF ~NeedsCall(file.v)
    THEN [st EXCEPT !.replies = Append(@, NoCall), !.idx = @ + 1]
    ELSE AddFindings(st, reply, Contribution(agent, file.v, reply))

\* lines 23-63: one turn of the loop.  st = [results, origin, calls, replies,
\* idx, raised]; origin[n] is the index of the file whose turn appended
\* results[n], calls the indexes of the files sent to the backend
AnalyzeTurn(agent, st, file, reply) ==
    IF file.t # "dict"
    THEN [st EXCEPT !.raised = TRUE]
    ELSE IF ~NeedsCall(file.v)
    THEN [st EXCEPT !.replies = Append(@, NoCall), !.idx = @ + 1]
    ELSE AddFindings(st, reply, Contribution(agent, file.v, reply))

\* line 21
AnalyzeStart ==
    [results |-> <<>>, origin |-> <<>>, calls |-> <<>>, replies |-> <<>>,
     idx |-> 0, raised |-> FALSE]

\* analyze as a function of the files and of the replies of the backend
\* (replies[k] answers the request for file k)
RECURSIVE AnalyzeFrom(_, _, _, _)
AnalyzeFrom(agent, fs, replies, st) ==
    IF st.raised \/ st.idx >= Len(fs) THEN st
    ELSE AnalyzeFrom(agent, fs, replies,
                     AnalyzeTurn(agent, st, fs[st.idx + 1], replies[st.idx + 1]))

analyze(agent, fs, replies) == AnalyzeFrom(agent, fs, replies, AnalyzeStart)

(***************************************************************************)
(* SeniorEngineerAgent.refine.                                             *)
(***************************************************************************)
SeniorName == "Senior Engineer"

\* lines 23-27: the values of agent_results in the order of its keys, without
\* 'engineering_feedback'
AllIssues(agent_results) ==
    agent_results.code_review \o agent_results.security
        \o agent_results.performance \o agent_results.comments

\* line 36
IssueFile(issue) == Get(issue, "file", Str("unknown"))

\* the indexes of the issues that open a group: the first issue of each file
FirstOfFile(all) ==
    {n \in 1..Len(all) : \A k \in 1..(n - 1) : IssueFile(all[k]) # IssueFile(all[n])}

\* the issues of file f, in their order
RECURSIVE IssuesOfFile(_, _)
IssuesOfFile(all, f) ==
    IF all = <<>> THEN <<>>
    ELSE (IF IssueFile(Head(all)) = f THEN <<Head(all)>> ELSE <<>>)
            \o IssuesOfFile(Tail(all), f)

\* the k-th least element of a set of integers
RECURSIVE Nth(_, _)
Nth(S, k) == IF k = 1 THEN Least(S) ELSE Nth(S \ {Least(S)}, k - 1)

\* lines 34-39: issues_by_file as the sequence of its items, in insertion
\* order: [file, issues]
GroupsAt(all, firsts) ==
    [k \in 1..Cardinality(firsts) |->
        [file |-> IssueFile(all[Nth(firsts, k)]),
         issues |-> IssuesOfFile(all, IssueFile(all[Nth(firsts, k)]))]]

IssuesByFile(all) == GroupsAt(all, FirstOfFile(all))

\* lines 83-87: the entry made of one refined issue
Refined(file, issue) == issue.o @@ [file |-> file, agent |-> Str(SeniorName)]

RefinedAll(file, items) == [n \in 1..Len(items) |-> Refined(file, items[n])]

\* line 81-82, given the result of '"refined_issues" in refined'
RefinedFound(refined, has) ==
    IF has.raised THEN [raised |-> TRUE, items |-> <<>>]
    ELSE IF ~has.value THEN NoItems
    ELSE IF refined.t # "object" THEN [raised |-> TRUE, items |-> <<>>]
    ELSE IterateObjects(refined.o["refined_issues"])

\* lines 81-82: the refined issues the loop reaches, and whether it raised
RefinedIssues(refined) == RefinedFound(refined, Contains(refined, "refined_issues"))

\* lines 79-87, given what generate_json_response did
RefineReached(got) ==
    IF got.raised THEN [raised |-> TRUE, items |-> <<>>]
    ELSE RefinedIssues(got.value)

\* lines 45-92, given the refined issues reached: the entries appended in
\* the try block, then the raw issues when an exception was caught
GroupEntries(group, reached) ==
    RefinedAll(group.file, reached.items)
        \o (IF reached.raised THEN group.issues ELSE <<>>)

\* lines 45-92: what one file adds to refined_results
RefineContribution(group, reply) ==
    GroupEntries(group, RefineReached(generate_json_response(reply)))

AddEntries(st, group, reply, items) ==
    [st EXCEPT !.results = @ \o items,
               !.origin = @ \o [n \in 1..Len(items) |-> st.idx + 1],
               !.calls = Append(@, group.file),
               !.replies = Append(@, reply),
               !.idx = @ + 1]

\* one turn of a loop that, when the request raised, assigns the raw issues
\* to refined_results in place of extending it
RefineTurn_FailureClears(st, group, reply) ==
    IF reply.kind = "error"
    THEN [st EXCEPT !.results = group.issues,
                    !.origin = [n \in 1..Len(group.issues) |-> st.idx + 1],
                    !.calls = Append(@, group.file),
                    !.replies = Append(@, reply),
                    !.idx = @ + 1]
    ELSE AddEntries(st, group, reply, RefineContribution(group, reply))

\* lines 44-92: one turn of the loop.  st = [results, origin, calls, replies,
\* idx]; origin[n] is the index of the group whose turn appended results[n],
\* calls the files a request was sent for
RefineTurn(st, group, reply) ==
    AddEntries(st, group, reply, RefineContribution(group, reply))

\* line 41
RefineStart ==
    [results |-> <<>>, origin |-> <<>>, calls |-> <<>>, replies |-> <<>>,
     idx |-> 0]

\* the loop of refine as a function of the groups and of the replies of the
\* backend (replies[k] answers the request for group k)
RECURSIVE RefineFrom(_, _, _)
RefineFrom(groups, replies, st) ==
    IF st.idx >= Len(groups) THEN st
    ELSE RefineFrom(groups, replies,
                    RefineTurn(st, groups[st.idx + 1], replies[st.idx + 1]))

refine(groups, replies) == RefineFrom(groups, replies, RefineStart)

(***************************************************************************)
(* ReviewController._run_all_agents and _safe_agent_call.                  *)
(***************************************************************************)
\* lines 98-113: the analyzers in the order they run, and their names
AnalyzerKeys == <<"code_review", "security", "performance">>

AgentOf ==
    [code_review |-> "Code Reviewer", security |-> "Security Auditor",
     performance |-> "Performance Analyst"]

\* lines 90-96
NoResults ==
    [code_review |-> <<>>, security |-> <<>>, performance |-> <<>>,
     engineering_feedback |-> <<>>, comments |-> <<>>]

\* what a method of an agent does: it raises or it returns a value
Raises == [raised |-> TRUE, value |-> <<>>]
Returns(v) == [raised |-> FALSE, value |-> v]

\* _safe_agent_call without its try block: the exception of the method
\* leaves the call
safe_agent_call_NoCatch(o) == o

\* lines 133-145: an exception of the method is logged and [] is returned
safe_agent_call(o) == IF o.raised THEN Returns(<<>>) ELSE o

\* lines 121-124 with the key 'security' left out
AllComments_SkipSecurity(results) == results.code_review \o results.performance

\* a combining that takes the refined findings when there are some
AllComments_PrefersFeedback(results) ==
    IF results.engineering_feedback # <<>>
    THEN results.engineering_feedback
    ELSE results.code_review \o results.security \o results.performance

\* lines 121-124: the lists of the three analyzers, in the order of the keys
AllComments(results) ==
    results.code_review \o results.security \o results.performance

(***************************************************************************)
(* The inputs the analyzers, the refinement and the controller are run on. *)
(***************************************************************************)
MaxFiles == 2
MaxFindings == 1

AddedLine(content, n) == [content |-> content, line_number |-> n]

\* elements of parsed_files in the shape analyze reads: file_name, added_lines
FD_a ==
    [file_name |-> "a.py", added_lines |-> <<AddedLine(<<"x", "=", "1">>, 3)>>]
FD_b ==
    [file_name |-> "b.py",
     added_lines |-> <<AddedLine(<<" ">>, 7), AddedLine(<<"y">>, 8)>>]
FD_nolines == [file_name |-> "c.py", added_lines |-> <<>>]
FD_blank ==
    [file_name |-> "d.py", added_lines |-> <<AddedLine(<<" ", "\t">>, 1)>>]

DictPool ==
    {[t |-> "dict", v |-> fd] : fd \in {FD_a, FD_b, FD_nolines, FD_blank}}

\* the FilePatch objects parse_unified_diff returns
PatchList(fs) == [n \in 1..Len(fs) |-> [t |-> "FilePatch", v |-> fs[n]]]

PatchInputs ==
    {PatchList(parse_unified_diff(t).files) :
        t \in {ScenarioDiff, <<L_file_x, L_hunk_1_1, L_add>>}}

\* parsed_files: dicts, or the FilePatch objects of the parser
AnalyzerInputs == SeqsUpTo(DictPool, MaxFiles) \cup PatchInputs

\* issue dicts a reply may hold
I_quality ==
    Obj([type |-> Str("code_quality"), severity |-> Str("high"),
         message |-> Str("m1"), suggestion |-> Str("s1")])
I_minimal == Obj([message |-> Str("m2")])
I_override ==
    Obj([message |-> Str("m3"), file |-> Str("other.py"),
         agent |-> Str("Someone"), line |-> Num(99)])

\* replies of the backend to analyze_code
AnalyzerReplies ==
    {BackendError,
     Text("none", NotJson),
     Text("none", Obj([issues |-> Arr(<<>>)])),
     Text("json", Obj([issues |-> Arr(<<I_quality>>)])),
     Text("plain", Obj([issues |-> Arr(<<I_minimal, I_override>>)])),
     Text("none", Obj([issues |-> Arr(<<I_minimal, Str("oops")>>)])),
     Text("none", Obj([result |-> Str("ok")])),
     Text("none", Num(42))}

\* replies of the backend to the refinement prompt
RefineReplies ==
    {BackendError,
     Text("none", NotJson),
     Text("none", Obj([refined_issues |-> Arr(<<>>)])),
     Text("json", Obj([refined_issues |-> Arr(<<I_quality>>)])),
     Text("none", Obj([refined_issues |-> Arr(<<I_minimal, I_override>>)])),
     Text("none", Obj([refined_issues |-> Arr(<<I_minimal, Str("oops")>>)])),
     Text("none", Obj([issues |-> Arr(<<I_quality>>)])),
     Text("none", Num(42))}

\* the findings an analyzer makes for the files a.py and b.py
AgentFindings(agent) ==
    {Finding(agent, FD_a, I_quality), Finding(agent, FD_b, I_minimal)}

\* what analyze of an analyzer does in a run of the controller: it raises
\* or it returns a list of its findings
AnalyzerOutcomes(agent) ==
    {Raises} \cup {Returns(l) : l \in SeqsUpTo(AgentFindings(agent), MaxFindings)}

(***************************************************************************)
(* SummaryAgent.  A text is a sequence of pieces: the literal parts of a   *)
(* template as Str, the numbers put into it as Num, a filename as the Arr  *)
(* of its characters.  The empty text is <<>>.                             *)
(***************************************************************************)
Chars(cs) == Arr([n \in 1..Len(cs) |-> Str(cs[n])])

IsBlankPiece(p) == p.t = "string" /\ p.s \in {"", " ", "\n"}

RECURSIVE StripLeft(_)
StripLeft(text) ==
    IF text # <<>> /\ IsBlankPiece(Head(text)) THEN StripLeft(Tail(text)) ELSE text

Reverse(s) == [n \in 1..Len(s) |-> s[Len(s) + 1 - n]]

\* str.strip()
Strip(text) == Reverse(StripLeft(Reverse(StripLeft(text))))

\* what self.model.generate_content does: it raises (the API is down, the
\* request times out), it returns a response whose text cannot be read
\* (response.text raises), or it returns a text
GenError == [kind |-> "error", text |-> <<>>]
GenBlocked == [kind |-> "blocked", text |-> <<>>]
GenText(text) == [kind |-> "text", text |-> text]

\* models.py: ReviewComment
ReviewComment(file_path, line_number, severity, category, title) ==
    [t |-> "ReviewComment",
     v |-> [file_path |-> file_path, line_number |-> line_number,
            severity |-> severity, category |-> category, title |-> title,
            comment |-> "c", suggested_fix |-> "None", agent_name |-> "a"]]

Severities == {"high", "medium", "low"}

\* str.upper() of the values of SeverityLevel and CategoryType
Upper ==
    [high |-> "HIGH", medium |-> "MEDIUM", low |-> "LOW",
     security |-> "SECURITY", performance |-> "PERFORMANCE",
     code_quality |-> "CODE_QUALITY", best_practices |-> "BEST_PRACTICES",
     style |-> "STYLE"]

\* comment.file_path, comment.severity, comment.category can be read: a dict
\* has no such attributes
HasAttributes(comments) ==
    \A n \in 1..Len(comments) : comments[n].t = "ReviewComment"

\* lines 73-80 and 106: comments_by_file.get(filename, [])
RECURSIVE FileComments(_, _)
FileComments(comments, filename) ==
    IF comments = <<>> THEN <<>>
    ELSE (IF Head(comments).v.file_path = filename THEN <<Head(comments)>> ELSE <<>>)
            \o FileComments(Tail(comments), filename)

\* lines 82-87
CountBySeverity(comments) ==
    [s \in Severities |->
        Cardinality({n \in 1..Len(comments) : comments[n].v.severity = s})]

\* lines 89-94
CountByType(comments) ==
    [c \in {comments[n].v.category : n \in 1..Len(comments)} |->
        Cardinality({n \in 1..Len(comments) : comments[n].v.category = c})]

\* lines 109-112: the number of lines of the change type in the hunks
CountIn(hunk_lines, change_type) ==
    Cardinality({n \in 1..Len(hunk_lines) : hunk_lines[n].change_type = change_type})

RECURSIVE CountLines(_, _)
CountLines(hunks, change_type) ==
    IF hunks = <<>> THEN 0
    ELSE CountIn(Head(hunks).lines, change_type) + CountLines(Tail(hunks), change_type)

\* lines 221-224: the text returned when the backend failed
FileFallback(file_comments) ==
    IF file_comments # <<>>
    THEN <<Str("Found "), Num(Len(file_comments)),
           Str(" issues in this file. Review the specific comments for details.")>>
    ELSE <<Str("No significant issues detected. Changes look reasonable.")>>

\* lines 209-224
generate_single_file_review(file_comments, reply) ==
    IF reply.kind = "text" THEN Strip(reply.text) ELSE FileFallback(file_comments)

\* lines 136-143
IssueOf(c) ==
    [line |-> c.line_number, severity |-> c.severity, category |-> c.category,
     title |-> c.title, comment |-> c.comment, suggested_fix |-> c.suggested_fix]

\* lines 106-146: the entry of one file
FileReview(file_patch, file_comments, reply) ==
    [filename |-> file_patch.filename,
     status |-> file_patch.status,
     language |-> IF file_patch.language = "None" THEN "unknown"
                  ELSE file_patch.language,
     additions |-> CountLines(file_patch.hunks, "add"),
     deletions |-> CountLines(file_patch.hunks, "remove"),
     issues_count |-> Len(file_comments),
     review |-> generate_single_file_review(file_comments, reply),
     issues |-> [n \in 1..Len(file_comments) |-> IssueOf(file_comments[n].v)]]

\* line 321: the line of the n-th top issue
TopIssue(n, c) ==
    <<Str("\n"), Num(n), Str(". ["), Str(Upper[c.severity]), Str("] "), Str(c.title)>>

\* lines 319-321
RECURSIVE TopIssues(_, _)
TopIssues(comments, n) ==
    IF n > Len(comments) \/ n > 3 THEN <<>>
    ELSE TopIssue(n, comments[n].v) \o TopIssues(comments, n + 1)

\* lines 304-323
generate_fallback_summary(comments, files, issues_by_severity, pr_metadata) ==
    <<Str(IF issues_by_severity["high"] > 0 THEN ":warning:" ELSE ":check:"),
      Str(" **Code Review Complete**"),
      Str("\n**PR #"), Num(pr_metadata.number), Str("**: "), Str(pr_metadata.title),
      Str("\n**Analyzed**: "), Num(Len(files)), Str(" files"),
      Str("\n**Issues Found**: "), Num(Len(comments)), Str(" total")>>
    \o (IF issues_by_severity["high"] > 0
        THEN <<Str("\n:warning: **"), Num(issues_by_severity["high"]),
               Str(" high-severity issues** require immediate attention")>>
        ELSE <<>>)
    \o (IF Len(comments) = 0
        THEN <<Str("\n:check: No major issues detected. Code looks good!")>>
        ELSE <<Str("\n\n**Top Issues:**")>> \o TopIssues(comments, 1))

\* lines 280-294
generate_overall_summary(comments, files, issues_by_severity, pr_metadata, reply) ==
    IF reply.kind = "text" THEN Strip(reply.text)
    ELSE generate_fallback_summary(comments, files, issues_by_severity, pr_metadata)

\* lines 56-71: the returned dict
Report(args, overall_summary, files_review) ==
    [summary |-> overall_summary,
     files_review |-> files_review,
     total_files_analyzed |-> Len(args.files),
     total_issues_found |-> Len(args.comments),
     issues_by_severity |-> CountBySeverity(args.comments),
     issues_by_type |-> CountByType(args.comments),
     metadata |-> [pr_number |-> args.pr_metadata.number,
                   pr_title |-> args.pr_metadata.title,
                   pr_author |-> args.pr_metadata.author,
                   files_changed |-> Len(args.files),
                   additions |-> args.pr_metadata.additions,
                   deletions |-> args.pr_metadata.deletions]]

\* lines 105-146: the entry the loop appends for file k
FileReviewAt(args, k, reply) ==
    FileReview(args.files[k], FileComments(args.comments, args.files[k].filename),
               reply)

\* lines 48-71: the overall summary and the returned dict
SummaryReturn(args, files_review, reply) ==
    Report(args,
           generate_overall_summary(args.comments, args.files,
                                    CountBySeverity(args.comments),
                                    args.pr_metadata, reply),
           files_review)

\* generate_summary as a function of its arguments and of the replies of
\* the backend (replies[k] for file k, the last one for the overall
\* summary): [raised, value]
generate_summary(args, replies) ==
    IF ~HasAttributes(args.comments)
    THEN [raised |-> TRUE, value |-> <<>>]
    ELSE [raised |-> FALSE,
          value |-> SummaryReturn(args,
                        [k \in 1..Len(args.files) |-> FileReviewAt(args, k, replies[k])],
                        replies[Len(args.files) + 1])]

(***************************************************************************)
(* ReviewController.review_pull_request and what it calls.                 *)
(***************************************************************************)
\* the emoji of a severity (review_controller.py lines 165-169)
SeverityEmoji == [high |-> ":red:", medium |-> ":yellow:", low |-> ":green:"]

P_Header == Str("## Automated PR Review\n\n")
P_SummaryHead == Str("### Summary\n")
P_DetailedFindings == Str("### Detailed Findings\n\n")
P_FileHead == Str("#### file ")
P_NoIssues == Str(":check: No issues found!\n")
P_Footer == Str("\n---\n*Generated by AI-powered PR Review Agent*")

\* lines 173-174
FormatFix(issue) ==
    IF issue.suggested_fix \notin {"None", ""}
    THEN <<Str("- *Suggestion:* "), Str(issue.suggested_fix), Str("\n")>>
    ELSE <<>>

\* lines 164-175
FormatIssue(issue) ==
    <<Str(SeverityEmoji[issue.severity]), Str(" **"), Str(Upper[issue.category]),
      Str("** (Line "), Num(issue.line), Str(")\n"),
      Str("- "), Str(issue.comment), Str("\n")>>
    \o FormatFix(issue) \o <<Str("\n")>>

RECURSIVE FormatIssues(_)
FormatIssues(issues) ==
    IF issues = <<>> THEN <<>>
    ELSE FormatIssue(Head(issues)) \o FormatIssues(Tail(issues))

\* lines 160-175: the section of one file
FormatFile(file_review) ==
    <<P_FileHead, Chars(file_review.filename), Str("\n\n")>>
    \o FormatIssues(file_review.issues)

RECURSIVE FormatFiles(_)
FormatFiles(files_review) ==
    IF files_review = <<>> THEN <<>>
    ELSE FormatFile(Head(files_review)) \o FormatFiles(Tail(files_review))

\* lines 147-183, for the dict generate_summary returns
format_review_comment(review) ==
    <<P_Header>>
    \o <<P_SummaryHead>> \o review.summary \o <<Str("\n\n")>>
    \o (IF review.files_review # <<>>
        THEN <<P_DetailedFindings>> \o FormatFiles(review.files_review)
        ELSE <<P_NoIssues>>)
    \o <<P_Footer>>

\* lines 48-51: the result for a diff without files
NoChanges ==
    [review |-> [files |-> <<>>, summary |-> <<Str("No code changes detected")>>],
     comment_posted |-> FALSE]

\* ReviewController.__init__ (lines 15-25): GeminiService() builds a
\* GeminiConfig, which raises ValueError without GEMINI_API_KEY;
\* GitHubService() reads settings.github_token and checks nothing, and
\* validate_settings is not called
ControllerBuilt(env) == env.gemini_api_key

\* github_service.py lines 19-54: the ways a request to the hosting API ends
\* in an exception
FetchFailures == {"unreachable", "status", "timeout"}

\* lines 28-44: the dict get_pull_request returns
PrData(number, title) ==
    [number |-> number, title |-> title, author |-> "dev",
     additions |-> 1, deletions |-> 0]

\* what analyze does in a review run, given the replies of the backend
AnalyzeOutcome(st) == IF st.raised THEN Raises ELSE Returns(st.results)

\* what refine does, given the replies of the backend
RefineOutcome(all, replies) ==
    IF all = <<>> THEN Returns(<<>>)
    ELSE Returns(refine(IssuesByFile(all), replies).results)

(***************************************************************************)
(* The inputs the summary and a review run are run on.                     *)
(***************************************************************************)
MaxComments == 2

\* comments as the signature of generate_summary names them
RC_x == ReviewComment(<<"x">>, 1, "high", "security", "t1")
RC_xpy == ReviewComment(<<"x", ".", "p", "y">>, 2, "low", "style", "t2")
RC_z == ReviewComment(<<"z">>, 3, "medium", "performance", "t3")

TypedComments == SeqsUpTo({RC_x, RC_xpy, RC_z}, MaxComments)

\* the findings of the analyzers, as the controller passes them on
AsComments(findings) == [n \in 1..Len(findings) |-> [t |-> "dict", v |-> findings[n]]]

DictComments == {AsComments(<<Finding("Code Reviewer", FD_a, I_quality)>>)}

\* a diff of two files: x with one added line, 'y b/z' new and empty
TwoFileDiff == <<L_file_x, L_hunk_1_1, L_add, L_file_amb, L_new_file>>

SummaryFiles ==
    {<<>>, parse_unified_diff(ScenarioDiff).files,
     parse_unified_diff(TwoFileDiff).files}

PrPool == {PrData(7, "T1"), PrData(7, "T2")}

SummaryArgs(comments, fs, pr_metadata) ==
    [comments |-> comments, files |-> fs, pr_metadata |-> pr_metadata]

SummaryInputs ==
    {SummaryArgs(c, f, p) : c \in TypedComments, f \in SummaryFiles, p \in PrPool}

DictSummaryInputs ==
    {SummaryArgs(c, f, p) : c \in DictComments, f \in SummaryFiles, p \in PrPool}

\* replies of the backend to the prompts of the summary
SummaryReplies ==
    {GenError, GenBlocked,
     GenText(<<Str(" "), Str("Looks good."), Str("\n")>>),
     GenText(<<Str(" "), Str("\n")>>)}

\* the diff texts of a review run: '' (one empty line), a header that does
\* not match, the scenario, two files, a hunk header int() rejects
ReviewTexts ==
    {<<L_empty>>, <<L_file_noprefix>>, ScenarioDiff, TwoFileDiff,
     <<L_file_x, L_hunk_long>>}

\* the FilePatch objects of a list of tagged elements
Untag(fs) == [n \in 1..Len(fs) |-> fs[n].v]


\* files in the shape the analyzers read, for a call of _run_all_agents
AskedFiles ==
    SeqsUpTo({[t |-> "dict", v |-> fd] : fd \in {FD_a, FD_b, FD_nolines}},
             MaxFiles)

\* replies of the backend to an analyzer: the call fails, or issues are found
AskReplies == {BackendError, Text("json", Obj([issues |-> Arr(<<I_quality>>)]))}
(***************************************************************************)
(* State.                                                                  *)
(***************************************************************************)
VARIABLES
    lines,          \* diff_text.split('\n')
    i,              \* index of the line the loop looks at (0-based)
    files,          \* references of the file dicts appended so far
    current_file,   \* reference of the current file dict, 0 for None
    current_hunks,  \* reference of the list the hunks are appended to
    dicts,          \* heap of file dicts
    lists,          \* heap of list objects (sequences of hunks)
    pc,             \* "loop", "done" (returned) or "raised"
    result          \* the returned sequence of FilePatch records

VARIABLES
    agent_name,     \* analyze: self.agent_name
    parsed_files,   \* analyze: its argument
    an_idx,         \* analyze: the number of files the loop has passed
    an_results,     \* analyze: results
    an_origin,      \* history: the file whose turn appended each result
    an_calls,       \* history: the files sent to the backend
    an_replies,     \* history: the reply for each file passed
    an_pc           \* "idle", "loop", "done" (returned) or "raised"

VARIABLES
    c_pc,           \* _run_all_agents: the next statement
    results,        \* _run_all_agents: results
    outcomes,       \* history: what analyze of each analyzer did
    issues_by_file, \* refine: the items of issues_by_file
    rf_idx,         \* refine: the number of files the loop has passed
    refined_results,\* refine: refined_results
    rf_origin,      \* history: the file whose turn appended each entry
    rf_calls,       \* history: the files a refinement request was sent for
    rf_replies      \* history: the reply for each file passed

VARIABLES
    s_args,         \* generate_summary: comments, files, pr_metadata
    s_pc,           \* "idle", "begin", "files", "done" (returned) or "raised"
    files_review,   \* _generate_file_reviews: file_reviews
    s_replies,      \* history: the replies of the backend, in order
    s_report        \* the dict generate_summary returned

VARIABLES
    env,            \* the credentials present in the environment
    r_pc,           \* "boot", "startup_failed", "ready", the stage of the
                    \* run, "returned" or "failed" (the run raised)
    failed_at,      \* history: the stage the run raised in
    post_comment,   \* review_pull_request: its argument
    pr_data,        \* review_pull_request: pr_data
    diff_content,   \* review_pull_request: diff_content, split into lines
    r_return,       \* the value review_pull_request returned
    post_requests,  \* history: the comment bodies sent to the hosting API,
                    \* each with the outcome of the request
    requests        \* history: the requests the analyzers sent to the
                    \* backend, each [agent, file] with the index of the file

VARIABLE
    runs            \* two calls of review_pull_request on the one controller:
                    \* pc and input of each call, the frames of the locals,
                    \* the value each call returned

pvars == <<lines, i, files, current_file, current_hunks, dicts, lists, pc, result>>

avars ==
    <<agent_name, parsed_files, an_idx, an_results, an_origin, an_calls,
      an_replies, an_pc>>

cvars ==
    <<c_pc, results, outcomes, issues_by_file, rf_idx, refined_results,
      rf_origin, rf_calls, rf_replies>>

svars == <<s_args, s_pc, files_review, s_replies, s_report>>

rvars ==
    <<env, r_pc, failed_at, post_comment, pr_data, diff_content, r_return,
      post_requests, requests>>

tvars == <<runs>>

(***************************************************************************)
(* The parser as a state machine: one step per turn of the outer loop.     *)
(***************************************************************************)
\* the locals of parse_unified_diff as one record
ParserState ==
    [i |-> i, files |-> files, current_file |-> current_file,
     current_hunks |-> current_hunks, dicts |-> dicts, lists |-> lists,
     raised |-> FALSE]

\* the analyzer is not running
AnalyzerIdle ==
    /\ agent_name = "Code Reviewer"
    /\ parsed_files = <<>>
    /\ an_idx = AnalyzeStart.idx
    /\ an_results = AnalyzeStart.results
    /\ an_origin = AnalyzeStart.origin
    /\ an_calls = AnalyzeStart.calls
    /\ an_replies = AnalyzeStart.replies
    /\ an_pc = "idle"

\* the refinement has not started
RefineIdle ==
    /\ issues_by_file = <<>>
    /\ rf_idx = RefineStart.idx
    /\ refined_results = RefineStart.results
    /\ rf_origin = RefineStart.origin
    /\ rf_calls = RefineStart.calls
    /\ rf_replies = RefineStart.replies

\* the controller is not running
ControllerIdle ==
    /\ c_pc = "idle"
    /\ results = NoResults
    /\ outcomes = [k \in {} |-> Raises]
    /\ RefineIdle

\* generate_summary is not running
SummaryIdle ==
    /\ s_args = SummaryArgs(<<>>, <<>>, PrData(0, ""))
    /\ s_pc = "idle"
    /\ files_review = <<>>
    /\ s_replies = <<>>
    /\ s_report = <<>>

\* no process, no review run
ReviewIdle ==
    /\ env = [github_token |-> TRUE, gemini_api_key |-> TRUE]
    /\ r_pc = "idle"
    /\ failed_at = "none"
    /\ post_comment = FALSE
    /\ pr_data = PrData(0, "")
    /\ diff_content = <<>>
    /\ r_return = <<>>
    /\ post_requests = <<>>
    /\ requests = <<>>

\* no concurrent calls
RunsIdle == runs = <<>>

\* the parser is not running
ParserIdle ==
    /\ lines = <<>>
    /\ i = ParserStart.i
    /\ files = ParserStart.files
    /\ current_file = ParserStart.current_file
    /\ current_hunks = ParserStart.current_hunks
    /\ dicts = ParserStart.dicts
    /\ lists = ParserStart.lists
    /\ pc = "idle"
    /\ result = <<>>

ParserInit(texts) ==
    /\ lines \in texts
    /\ i = ParserStart.i
    /\ files = ParserStart.files
    /\ current_file = ParserStart.current_file
    /\ current_hunks = ParserStart.current_hunks
    /\ dicts = ParserStart.dicts
    /\ lists = ParserStart.lists
    /\ pc = "loop"
    /\ result = <<>>
    /\ AnalyzerIdle
    /\ ControllerIdle
    /\ SummaryIdle
    /\ ReviewIdle
    /\ RunsIdle

SetParserState(st) ==
    /\ i' = st.i
    /\ files' = st.files
    /\ current_file' = st.current_file
    /\ current_hunks' = st.current_hunks
    /\ dicts' = st.dicts
    /\ lists' = st.lists

\* the state after one turn of the loop
ParseStepTo(st) ==
    IF st.raised
    THEN /\ pc' = "raised"
         /\ UNCHANGED <<i, files, current_file, current_hunks, dicts, lists>>
    ELSE /\ pc' = "loop"
         /\ SetParserState(st)

\* lines 23-108: one turn of the while loop
ParseStep ==
    /\ pc = "loop"
    /\ i < Len(lines)
    /\ ParseStepTo(LoopBody(lines, ParserState))
    /\ UNCHANGED <<lines, result, avars, cvars, svars, rvars, tvars>>

\* lines 110-120: the loop has ended; flush and return
ParseReturn ==
    /\ pc = "loop"
    /\ i >= Len(lines)
    /\ SetParserState(SavePrevious(ParserState))
    /\ result' = Finish(ParserState)
    /\ pc' = "done"
    /\ UNCHANGED <<lines, avars, cvars, svars, rvars, tvars>>

(***************************************************************************)
(* analyze as a state machine: one step per file.                          *)
(***************************************************************************)
AnalyzerState ==
    [results |-> an_results, origin |-> an_origin, calls |-> an_calls,
     replies |-> an_replies, idx |-> an_idx, raised |-> FALSE]

AnalyzeInit ==
    /\ agent_name \in AgentNames
    /\ parsed_files \in AnalyzerInputs
    /\ an_idx = AnalyzeStart.idx
    /\ an_results = AnalyzeStart.results
    /\ an_origin = AnalyzeStart.origin
    /\ an_calls = AnalyzeStart.calls
    /\ an_replies = AnalyzeStart.replies
    /\ an_pc = "loop"
    /\ ParserIdle
    /\ ControllerIdle
    /\ SummaryIdle
    /\ ReviewIdle
    /\ RunsIdle

AnalyzeStepTo(st) ==
    /\ an_pc' = IF st.raised THEN "raised" ELSE "loop"
    /\ an_idx' = st.idx
    /\ an_results' = st.results
    /\ an_origin' = st.origin
    /\ an_calls' = st.calls
    /\ an_replies' = st.replies

\* reviewer_agent.py lines 23-63: one turn of the loop; the reply is read
\* only when the file is sent to the backend
AnalyzeStep ==
    /\ an_pc = "loop"
    /\ an_idx < Len(parsed_files)
    /\ \E reply \in AnalyzerReplies :
          AnalyzeStepTo(AnalyzeTurn(agent_name, AnalyzerState,
                                    parsed_files[an_idx + 1], reply))
    /\ UNCHANGED <<agent_name, parsed_files, pvars, cvars, svars, rvars, tvars>>

\* lines 65-66: return results
AnalyzeReturn ==
    /\ an_pc = "loop"
    /\ an_idx >= Len(parsed_files)
    /\ an_pc' = "done"
    /\ UNCHANGED <<agent_name, parsed_files, an_idx, an_results, an_origin,
                   an_calls, an_replies, pvars, cvars, svars, rvars, tvars>>

(***************************************************************************)
(* _run_all_agents as a state machine: one step per analyzer, one step per *)
(* file of the refinement, one step for the merge.                         *)
(***************************************************************************)
RefineState ==
    [results |-> refined_results, origin |-> rf_origin, calls |-> rf_calls,
     replies |-> rf_replies, idx |-> rf_idx]

RefineVars ==
    <<issues_by_file, rf_idx, refined_results, rf_origin, rf_calls, rf_replies>>

AgentsInit ==
    /\ c_pc = "code_review"
    /\ results = NoResults
    /\ outcomes = [k \in {} |-> Raises]
    /\ RefineIdle
    /\ ParserIdle
    /\ AnalyzerIdle
    /\ SummaryIdle
    /\ ReviewIdle
    /\ RunsIdle

\* an order of the calls in which the refinement follows the security audit
NextOf_SkipPerformance ==
    [code_review |-> "security", security |-> "refine",
     performance |-> "refine"]

\* lines 100-118: the four calls are awaited one after the other
NextOf ==
    [code_review |-> "security", security |-> "performance",
     performance |-> "refine"]

\* lines 98-129: the assignment of what _safe_agent_call gave; an exception
\* leaves the try block and results is returned as it is
Assign(key, call, next) ==
    IF call.raised
    THEN /\ c_pc' = "done"
         /\ UNCHANGED results
    ELSE /\ c_pc' = next
         /\ results' = [results EXCEPT ![key] = call.value]

\* lines 100-113: one analyzer is run
CallAnalyzer ==
    /\ c_pc \in DOMAIN NextOf
    /\ \E o \in AnalyzerOutcomes(AgentOf[c_pc]) :
          /\ outcomes' = (c_pc :> o) @@ outcomes
          /\ Assign(c_pc, safe_agent_call(o), NextOf[c_pc])
    /\ UNCHANGED <<RefineVars, pvars, avars, svars, rvars, tvars>>

\* senior_engineer_agent.py lines 23-41: refine is entered; without issues
\* it returns [] at once
RefineBegin ==
    /\ c_pc = "refine"
    /\ IF AllIssues(results) = <<>>
       THEN /\ Assign("engineering_feedback", safe_agent_call(Returns(<<>>)),
                      "combine")
            /\ UNCHANGED issues_by_file
       ELSE /\ issues_by_file' = IssuesByFile(AllIssues(results))
            /\ c_pc' = "refine_loop"
            /\ UNCHANGED results
    /\ UNCHANGED <<outcomes, rf_idx, refined_results, rf_origin, rf_calls,
                   rf_replies, pvars, avars, svars, rvars, tvars>>

RefineStepTo(st) ==
    /\ rf_idx' = st.idx
    /\ refined_results' = st.results
    /\ rf_origin' = st.origin
    /\ rf_calls' = st.calls
    /\ rf_replies' = st.replies

\* senior_engineer_agent.py lines 44-92: one turn of the loop
RefineStep ==
    /\ c_pc = "refine_loop"
    /\ rf_idx < Len(issues_by_file)
    /\ \E reply \in RefineReplies :
          RefineStepTo(RefineTurn(RefineState, issues_by_file[rf_idx + 1], reply))
    /\ UNCHANGED <<c_pc, results, outcomes, issues_by_file, pvars, avars, svars, rvars, tvars>>

\* senior_engineer_agent.py lines 94-95 and review_controller.py lines
\* 115-118: refine returns refined_results
RefineReturn ==
    /\ c_pc = "refine_loop"
    /\ rf_idx >= Len(issues_by_file)
    /\ Assign("engineering_feedback", safe_agent_call(Returns(refined_results)),
              "combine")
    /\ UNCHANGED <<outcomes, RefineVars, pvars, avars, svars, rvars, tvars>>

\* review_controller.py lines 120-126
Combine ==
    /\ c_pc = "combine"
    /\ results' = [results EXCEPT !.comments = AllComments(results)]
    /\ c_pc' = "done"
    /\ UNCHANGED <<outcomes, RefineVars, pvars, avars, svars, rvars, tvars>>

(***************************************************************************)
(* generate_summary as a state machine: one step for the grouping and the  *)
(* counts, one step per backend call.                                      *)
(***************************************************************************)
SummaryInit ==
    /\ \/ s_args \in SummaryInputs
       \/ s_args \in DictSummaryInputs
    /\ s_pc = "begin"
    /\ files_review = <<>>
    /\ s_replies = <<>>
    /\ s_report = <<>>
    /\ ParserIdle
    /\ AnalyzerIdle
    /\ ControllerIdle
    /\ ReviewIdle
    /\ RunsIdle

\* summary_agent.py lines 38-42: _organize_comments_by_file reads
\* comment.file_path; a finding that is a dict has no such attribute
SummaryBegin ==
    /\ s_pc = "begin"
    /\ s_pc' = IF HasAttributes(s_args.comments) THEN "files" ELSE "raised"
    /\ UNCHANGED <<s_args, files_review, s_replies, s_report, pvars, avars,
                   cvars, rvars, tvars>>

\* a turn that stores the language it reports in the FilePatch
PatchAfterReview_SetsLanguage(file_patch) ==
    [file_patch EXCEPT !.language = IF @ = "None" THEN "unknown" ELSE @]

\* summary_agent.py lines 105-133 and 150-166: what a turn of the loop leaves
\* of the FilePatch it reviews; the attributes are read, none is assigned
PatchAfterReview(file_patch) == file_patch

\* summary_agent.py lines 103-146: one turn of the loop over the files
FileReviewStep ==
    /\ s_pc = "files"
    /\ Len(files_review) < Len(s_args.files)
    /\ \E reply \in SummaryReplies :
          /\ files_review' =
                Append(files_review,
                       FileReviewAt(s_args, Len(files_review) + 1, reply))
          /\ s_replies' = Append(s_replies, reply)
    /\ s_args' = [s_args EXCEPT
                    !.files[Len(files_review) + 1] = PatchAfterReview(@)]
    /\ UNCHANGED <<s_pc, s_report, pvars, avars, cvars, rvars, tvars>>

\* summary_agent.py lines 48-71: the overall summary and the return
OverallStep ==
    /\ s_pc = "files"
    /\ Len(files_review) >= Len(s_args.files)
    /\ \E reply \in SummaryReplies :
          /\ s_report' = SummaryReturn(s_args, files_review, reply)
          /\ s_replies' = Append(s_replies, reply)
    /\ s_pc' = "done"
    /\ UNCHANGED <<s_args, files_review, pvars, avars, cvars, rvars, tvars>>

(***************************************************************************)
(* The process and one review run: the import of review_routes builds the  *)
(* controller, then review_pull_request runs stage by stage.               *)
(***************************************************************************)
ReviewInit ==
    /\ env \in [github_token : BOOLEAN, gemini_api_key : BOOLEAN]
    /\ r_pc = "boot"
    /\ failed_at = "none"
    /\ post_comment \in BOOLEAN
    /\ pr_data = PrData(0, "")
    /\ diff_content = <<>>
    /\ r_return = <<>>
    /\ post_requests = <<>>
    /\ requests = <<>>
    /\ ParserIdle
    /\ AnalyzerIdle
    /\ ControllerIdle
    /\ SummaryIdle
    /\ RunsIdle

\* review_pull_request lines 82-84: the exception is logged and raised again
Fail(stage) ==
    /\ r_pc' = "failed"
    /\ failed_at' = stage

\* review_routes.py line 8: controller = ReviewController()
Startup ==
    /\ r_pc = "boot"
    /\ r_pc' = IF ControllerBuilt(env) THEN "ready" ELSE "startup_failed"
    /\ UNCHANGED <<env, failed_at, post_comment, pr_data, diff_content,
                   r_return, post_requests, requests, pvars, avars, cvars, svars, tvars>>

\* review_pull_request lines 33-36: get_pull_request; the request fails, or
\* the API answers it, which it does for a request that carries a token
FetchPR ==
    /\ r_pc = "ready"
    /\ \/ /\ \E o \in FetchFailures : Fail("Fetching")
          /\ UNCHANGED pr_data
       \/ /\ env.github_token
          /\ \E p \in PrPool : pr_data' = p
          /\ r_pc' = "fetch_diff"
          /\ UNCHANGED failed_at
    /\ UNCHANGED <<env, post_comment, diff_content, r_return, post_requests, requests,
                   pvars, avars, cvars, svars, tvars>>

\* review_pull_request lines 38-40: get_pr_diff
FetchDiff ==
    /\ r_pc = "fetch_diff"
    /\ \/ /\ \E o \in FetchFailures : Fail("Fetching")
          /\ UNCHANGED diff_content
       \/ /\ \E text \in ReviewTexts : diff_content' = text
          /\ r_pc' = "parse"
          /\ UNCHANGED failed_at
    /\ UNCHANGED <<env, post_comment, pr_data, r_return, post_requests, requests,
                   pvars, avars, cvars, svars, tvars>>

\* the run without the guard of lines 48-51: a diff without files goes on to
\* the analyzers
ParseDiffTo_NoGuard(p) ==
    IF p.raised
    THEN /\ Fail("Parsing")
         /\ UNCHANGED <<r_return, parsed_files, c_pc>>
    ELSE /\ parsed_files' = PatchList(p.files)
         /\ r_pc' = "analyze"
         /\ c_pc' = "code_review"
         /\ UNCHANGED <<failed_at, r_return>>

\* review_pull_request lines 42-55, given what parse_unified_diff did
ParseDiffTo(p) ==
    IF p.raised
    THEN /\ Fail("Parsing")
         /\ UNCHANGED <<r_return, parsed_files, c_pc>>
    ELSE IF p.files = <<>>
    THEN /\ r_return' = NoChanges
         /\ r_pc' = "returned"
         /\ UNCHANGED <<failed_at, parsed_files, c_pc>>
    ELSE /\ parsed_files' = PatchList(p.files)
         /\ r_pc' = "analyze"
         /\ c_pc' = "code_review"
         /\ UNCHANGED <<failed_at, r_return>>

ParseDiff ==
    /\ r_pc = "parse"
    /\ \E p \in {parse_unified_diff(diff_content)} : ParseDiffTo(p)
    /\ UNCHANGED <<env, post_comment, pr_data, diff_content, post_requests, requests,
                   pvars, agent_name, an_idx, an_results, an_origin, an_calls,
                   an_replies, an_pc, results, outcomes, RefineVars, svars, tvars>>

\* the requests an analyzer sent, in the order of the files
RequestsOf(agent, calls) ==
    [n \in 1..Len(calls) |-> [agent |-> agent, file |-> calls[n]]]

RunAnalyzerTo(st) ==
    /\ outcomes' = (c_pc :> AnalyzeOutcome(st)) @@ outcomes
    /\ requests' = requests \o RequestsOf(AgentOf[c_pc], st.calls)
    /\ Assign(c_pc, safe_agent_call(AnalyzeOutcome(st)), NextOf[c_pc])

\* _run_all_agents lines 100-113: one analyzer is run on the parsed files
RunAnalyzerWith(Replies) ==
    /\ c_pc \in DOMAIN NextOf
    /\ \E replies \in [1..Len(parsed_files) -> Replies] :
          RunAnalyzerTo(analyze(AgentOf[c_pc], parsed_files, replies))
    /\ UNCHANGED <<RefineVars, pvars, avars, svars, env, r_pc, failed_at,
                   post_comment, pr_data, diff_content, r_return,
                   post_requests, tvars>>

RunAnalyzer ==
    /\ r_pc = "analyze"
    /\ RunAnalyzerWith(AnalyzerReplies)

RefineCallOn(all) ==
    \E replies \in [1..Len(IssuesByFile(all)) -> RefineReplies] :
       Assign("engineering_feedback", safe_agent_call(RefineOutcome(all, replies)),
              "combine")

\* _run_all_agents lines 115-118: the refinement is run on the results
RefineCall ==
    /\ r_pc = "analyze"
    /\ c_pc = "refine"
    /\ RefineCallOn(AllIssues(results))
    /\ UNCHANGED <<outcomes, RefineVars, pvars, avars, svars, rvars, tvars>>

\* _run_all_agents lines 120-126
CombineAll ==
    /\ r_pc = "analyze"
    /\ Combine

\* review_pull_request lines 59-63: generate_summary is called with the
\* comments of the agents, the parsed files and the PR data
Summarize ==
    /\ r_pc = "analyze"
    /\ c_pc = "done"
    /\ r_pc' = "summarize"
    /\ s_args' = SummaryArgs(AsComments(results.comments), Untag(parsed_files),
                             pr_data)
    /\ s_pc' = "begin"
    /\ UNCHANGED <<files_review, s_replies, s_report, env, failed_at,
                   post_comment, pr_data, diff_content, r_return,
                   post_requests, requests, pvars, avars, cvars, tvars>>

\* the steps of generate_summary inside the run
SummaryStep ==
    /\ r_pc = "summarize"
    /\ SummaryBegin \/ FileReviewStep \/ OverallStep

\* what the run returns when the posting was asked for, given whether the
\* request was answered: the flag is raised although the request failed
PublishReturn_Optimistic(report, asked, ok) ==
    [review |-> report, comment_posted |-> asked]

\* review_pull_request lines 66-80: comment_posted is set after the request
\* only, and an exception of the request is logged
PublishReturn(report, asked, ok) ==
    [review |-> report, comment_posted |-> asked /\ ok]

\* review_pull_request lines 65-80: the comment is formatted and posted,
\* an exception of either is logged, and the review is returned; an
\* exception of generate_summary leaves the run
Publish ==
    /\ r_pc = "summarize"
    /\ s_pc \in {"done", "raised"}
    /\ IF s_pc = "raised"
       THEN /\ Fail("Summarizing")
            /\ UNCHANGED <<r_return, post_requests>>
       ELSE /\ r_pc' = "returned"
            /\ UNCHANGED failed_at
            /\ IF post_comment
               THEN \E ok \in BOOLEAN :
                       /\ post_requests' =
                             Append(post_requests,
                                    [body |-> format_review_comment(s_report),
                                     ok |-> ok])
                       /\ r_return' = PublishReturn(s_report, TRUE, ok)
               ELSE /\ r_return' = PublishReturn(s_report, FALSE, FALSE)
                    /\ UNCHANGED post_requests
    /\ UNCHANGED <<env, post_comment, pr_data, diff_content, requests, pvars,
                   avars, cvars, svars, tvars>>
(***************************************************************************)
(* Two calls of review_pull_request on the controller of review_routes.    *)
(* A call keeps pr_data, diff_content, parsed_files, agent_results and     *)
(* final_review in its own frame; the controller, its services and its     *)
(* agents are written in __init__ only.  A step of a call is one stage;    *)
(* the other call may take steps between any two.                          *)
(***************************************************************************)
RunIds == {1, 2}

\* the frame of the locals of a call: every call has its own
Frame_Shared(run) == 1

Frame(run) == run

NoFrame ==
    [pr_data |-> PrData(0, ""), diff_content |-> <<>>, parsed_files |-> <<>>,
     agent_results |-> NoResults, final_review |-> <<>>]

\* what the hosting API and the backend answer to one call
RunInputs ==
    [title : {"T1", "T2"},
     text : {<<L_empty>>, ScenarioDiff, TwoFileDiff},
     reply : {GenError, GenText(<<Str("Looks good.")>>)}]

\* the replies to the n requests of a call
SameReply(n, reply) == [k \in 1..n |-> reply]

\* _run_all_agents lines 100-113: the entry of one analyzer
AnalyzerEntry(key, fs, reply) ==
    safe_agent_call(AnalyzeOutcome(
        analyze(AgentOf[key], fs, SameReply(Len(fs), reply)))).value

\* _run_all_agents lines 115-118
WithFeedback(res, reply) ==
    [res EXCEPT !.engineering_feedback =
        safe_agent_call(RefineOutcome(AllIssues(res),
            SameReply(Len(res.code_review) + Len(res.security)
                        + Len(res.performance), reply))).value]

\* _run_all_agents lines 120-126
WithComments(res) == [res EXCEPT !.comments = AllComments(res)]

\* _run_all_agents as a function of the files and of the reply of the
\* backend to every request
run_all_agents(fs, reply) ==
    WithComments(WithFeedback(
        [NoResults EXCEPT !.code_review = AnalyzerEntry("code_review", fs, reply),
                          !.security = AnalyzerEntry("security", fs, reply),
                          !.performance = AnalyzerEntry("performance", fs, reply)],
        reply))

\* the summary of a call, from its frame
SummaryOf(fr, reply) ==
    generate_summary(
        SummaryArgs(AsComments(fr.agent_results.comments),
                    Untag(fr.parsed_files), fr.pr_data),
        SameReply(Len(fr.parsed_files) + 1, reply))

TwoRunsInit ==
    /\ runs \in [pc : [RunIds -> {"fetch_pr"}],
                 input : [RunIds -> RunInputs],
                 frame : [RunIds -> {NoFrame}],
                 ret : [RunIds -> {<<>>}],
                 mixed : {FALSE}]
    /\ ParserIdle
    /\ AnalyzerIdle
    /\ ControllerIdle
    /\ SummaryIdle
    /\ ReviewIdle

\* the other call is between its first and its last step
Midway(run) ==
    \E o \in RunIds \ {run} : runs.pc[o] \notin {"fetch_pr", "returned", "failed"}

\* a step of a call: its position, the local it assigns, what it returns
StepTo(run, next, local, v, returned) ==
    /\ runs' = [runs EXCEPT !.pc[run] = next,
                            !.frame[Frame(run)][local] = v,
                            !.ret[run] = returned,
                            !.mixed = @ \/ Midway(run)]
    /\ UNCHANGED <<pvars, avars, cvars, svars, rvars>>

\* lines 33-36
RunFetchPR(run) ==
    /\ runs.pc[run] = "fetch_pr"
    /\ StepTo(run, "fetch_diff", "pr_data", PrData(7, runs.input[run].title), <<>>)

\* lines 38-40
RunFetchDiff(run) ==
    /\ runs.pc[run] = "fetch_diff"
    /\ StepTo(run, "parse", "diff_content", runs.input[run].text, <<>>)

RunParseTo(run, p) ==
    IF p.raised
    THEN StepTo(run, "failed", "parsed_files", <<>>, <<>>)
    ELSE IF p.files = <<>>
    THEN StepTo(run, "returned", "parsed_files", <<>>, NoChanges)
    ELSE StepTo(run, "agents", "parsed_files", PatchList(p.files), <<>>)

\* lines 42-51
RunParse(run) ==
    /\ runs.pc[run] = "parse"
    /\ RunParseTo(run, parse_unified_diff(runs.frame[Frame(run)].diff_content))

\* lines 53-55
RunAgents(run) ==
    /\ runs.pc[run] = "agents"
    /\ StepTo(run, "summary", "agent_results",
              run_all_agents(runs.frame[Frame(run)].parsed_files,
                             Text("json", Obj([issues |-> Arr(<<I_quality>>)]))),
              <<>>)

RunSummaryTo(run, s) ==
    IF s.raised
    THEN StepTo(run, "failed", "final_review", <<>>, <<>>)
    ELSE StepTo(run, "return", "final_review", s.value, <<>>)

\* lines 59-63
RunSummary(run) ==
    /\ runs.pc[run] = "summary"
    /\ RunSummaryTo(run, SummaryOf(runs.frame[Frame(run)], runs.input[run].reply))

\* lines 77-80, without a comment asked for
RunReturn(run) ==
    /\ runs.pc[run] = "return"
    /\ StepTo(run, "returned", "final_review",
              runs.frame[Frame(run)].final_review,
              [review |-> runs.frame[Frame(run)].final_review,
               comment_posted |-> FALSE])

\* the frame a call that runs alone has before its last step
AloneFrame(input, p) ==
    [NoFrame EXCEPT !.pr_data = PrData(7, input.title),
                    !.parsed_files = PatchList(p.files),
                    !.agent_results =
                        run_all_agents(PatchList(p.files),
                            Text("json", Obj([issues |-> Arr(<<I_quality>>)])))]

RunAloneOn(input, p) ==
    IF p.files = <<>> THEN NoChanges
    ELSE [review |-> SummaryOf(AloneFrame(input, p), input.reply).value,
          comment_posted |-> FALSE]

\* what review_pull_request returns for the input when it runs alone
RunAlone(input) == RunAloneOn(input, parse_unified_diff(input.text))

(***************************************************************************)
(* _run_all_agents called on files in the shape the analyzers read: the    *)
(* three analyzers, each with the requests it sends, then the refinement   *)
(* turn by turn and the merge.                                             *)
(***************************************************************************)
RunAgentsInit ==
    /\ parsed_files \in AskedFiles
    /\ agent_name = "Code Reviewer"
    /\ an_idx = AnalyzeStart.idx
    /\ an_results = AnalyzeStart.results
    /\ an_origin = AnalyzeStart.origin
    /\ an_calls = AnalyzeStart.calls
    /\ an_replies = AnalyzeStart.replies
    /\ an_pc = "idle"
    /\ c_pc = "code_review"
    /\ results = NoResults
    /\ outcomes = [k \in {} |-> Raises]
    /\ RefineIdle
    /\ ParserIdle
    /\ SummaryIdle
    /\ ReviewIdle
    /\ RunsIdle

\* _run_all_agents lines 100-113
AskAnalyzer ==
    /\ r_pc = "idle"
    /\ RunAnalyzerWith(AskReplies)
vars == <<pvars, avars, cvars, svars, rvars, tvars>>

ParserNext == ParseStep \/ ParseReturn

SpecParser == ParserInit(ParserTexts) /\ [][ParserNext]_vars

SpecHunk == ParserInit(HunkTexts) /\ [][ParserNext]_vars

AnalyzeNext == AnalyzeStep \/ AnalyzeReturn

SpecAnalyze == AnalyzeInit /\ [][AnalyzeNext]_vars

AgentsNext == CallAnalyzer \/ RefineBegin \/ RefineStep \/ RefineReturn \/ Combine

SpecAgents == AgentsInit /\ [][AgentsNext]_vars

RunAgentsNext ==
    AskAnalyzer \/ RefineBegin \/ RefineStep \/ RefineReturn \/ Combine

SpecRunAgents == RunAgentsInit /\ [][RunAgentsNext]_vars

SummaryNext == SummaryBegin \/ FileReviewStep \/ OverallStep

SpecSummary == SummaryInit /\ [][SummaryNext]_vars

ReviewNext ==
    \/ Startup
    \/ FetchPR
    \/ FetchDiff
    \/ ParseDiff
    \/ RunAnalyzer
    \/ RefineCall
    \/ CombineAll
    \/ Summarize
    \/ SummaryStep
    \/ Publish

SpecReview == ReviewInit /\ [][ReviewNext]_vars

\* the steps of a run after the parsing
AfterParse ==
    RunAnalyzer \/ RefineCall \/ CombineAll \/ Summarize \/ SummaryStep \/ Publish

\* a run past the parsing that can take a step takes one: the event loop
\* resumes the coroutine after every await, and no step waits for another
\* run
SpecReviewLive == SpecReview /\ WF_vars(AfterParse)

TwoRunsNext ==
    \E run \in RunIds :
       \/ RunFetchPR(run)
       \/ RunFetchDiff(run)
       \/ RunParse(run)
       \/ RunAgents(run)
       \/ RunSummary(run)
       \/ RunReturn(run)

SpecTwoRuns == TwoRunsInit /\ [][TwoRunsNext]_vars

(***************************************************************************)
(* Properties of the parser.                                               *)
(***************************************************************************)
\* C1: parse_unified_diff returns a sequence of FilePatch records for every
\* input text and never raises.
C1_NeverRaises == pc # "raised"

\* the number of lines of the text that begin with 'diff --git'
MarkerCount(ls) == Cardinality({k \in 1..Len(ls) : StartsWith(ls[k], W_diff_git)})

\* C2: the number of FilePatch records returned equals the number of input
\* lines that begin with 'diff --git', whatever the rest of the line holds.
C2_RecordPerMarker == pc = "done" => Len(result) = MarkerCount(lines)

\* the number of elements of the sequence s that satisfy Test
CountIf(s, Test(_)) == Cardinality({k \in 1..Len(s) : Test(s[k])})

IsOldSide(l) == l.change_type \in {"remove", "context"}
IsNewSide(l) == l.change_type \in {"add", "context"}

\* the line number the split-cursor rule gives the n-th line of hunk h
CursorAt(h, n) ==
    LET before == SubSeq(h.lines, 1, n - 1)
    IN  IF h.lines[n].change_type = "remove"
        THEN h.old_start + CountIf(before, IsOldSide)
        ELSE h.new_start + CountIf(before, IsNewSide)

\* the body of the hunk whose header is line 2 of the text: the lines up to
\* the next line that starts with '@@' or 'diff'
FirstBodyEnd(ls) ==
    CHOOSE e \in 2..Len(ls) :
        /\ \A k \in 3..e : ~StartsWith(ls[k], W_at) /\ ~StartsWith(ls[k], W_diff)
        /\ (e = Len(ls) \/ StartsWith(ls[e + 1], W_at) \/ StartsWith(ls[e + 1], W_diff))

FirstBody(ls) == SubSeq(ls, 3, FirstBodyEnd(ls))

\* the change type a body line's first character stands for
PrefixType(l) ==
    IF StartsWith(l, <<"+">>) THEN "add"
    ELSE IF StartsWith(l, <<"-">>) THEN "remove"
    ELSE IF StartsWith(l, <<" ">>) THEN "context"
    ELSE "none"

ScenarioResult ==
    << [filename |-> <<"x", ".", "p", "y">>, status |-> "modified",
        additions |-> 2, deletions |-> 1, language |-> "None",
        hunks |-> << [old_start |-> 1, old_count |-> 1,
                      new_start |-> 1, new_count |-> 2,
                      lines |-> << LineChange(<<"o", "l", "d">>, "remove", 1),
                                   LineChange(<<"n", "e", "w", "1">>, "add", 1),
                                   LineChange(<<"n", "e", "w", "2">>, "add", 2) >>] >>] >>

\* C3: in every recorded hunk the cursors are independent: an added or a
\* context line carries new_start plus the number of added and context lines
\* before it, a removed line carries old_start plus the number of removed and
\* context lines before it; and the scenario text yields the scenario result.
C3_SplitCursors ==
    pc = "done" =>
        /\ \A f \in 1..Len(result) : \A h \in 1..Len(result[f].hunks) :
              \A n \in 1..Len(result[f].hunks[h].lines) :
                 result[f].hunks[h].lines[n].line_number
                    = CursorAt(result[f].hunks[h], n)
        /\ lines = ScenarioDiff => result = ScenarioResult

\* the scenario text has been parsed
C3_Witness == pc = "done" /\ lines = ScenarioDiff /\ result = ScenarioResult

IsOldPrefix(l) == PrefixType(l) \in {"remove", "context"}
IsNewPrefix(l) == PrefixType(l) \in {"add", "context"}
IsBodyPrefix(l) == PrefixType(l) # "none"

\* the body holds exactly the header's old count of lines with prefix '-' or
\* ' ', its new count of lines with prefix '+' or ' ', and no other line
WellFormedBody(m, body) ==
    /\ m.ok
    /\ CountIf(body, IsBodyPrefix) = Len(body)
    /\ CountIf(body, IsOldPrefix) = HunkCount(m.g2).value
    /\ CountIf(body, IsNewPrefix) = HunkCount(m.g4).value

\* the hunk whose header is line 2 of the text is well-formed
WellFormedFirstHunk(ls) == WellFormedBody(HunkRegex(ls[2]), FirstBody(ls))

\* C4: for a well-formed hunk, whatever the text after each line's prefix,
\* the recorded hunk holds new_count added-or-context lines and old_count
\* removed-or-context lines.
C4_WellFormedCounts ==
    (pc = "done" /\ WellFormedFirstHunk(lines)) =>
        LET h == result[1].hunks[1]
        IN  /\ CountIf(h.lines, IsNewSide) = h.new_count
            /\ CountIf(h.lines, IsOldSide) = h.old_count

\* C5: serializing a returned FilePatch and parsing the text again yields
\* that FilePatch alone.
C5_RoundTrip ==
    pc = "done" =>
        \A k \in 1..Len(result) :
            parse_unified_diff(Serialize(result[k]))
                = [raised |-> FALSE, files |-> <<result[k]>>]

(***************************************************************************)
(* Claims about the analyzers, the controller and the refinement.          *)
(***************************************************************************)
Range(s) == {s[n] : n \in 1..Len(s)}

\* the elements of res at the indexes S, in their order
Pick(res, S) == [n \in 1..Cardinality(S) |-> res[Nth(S, n)]]

\* the entries of res that the turn of file k appended
EntriesOf(res, org, k) == Pick(res, {m \in 1..Len(org) : org[m] = k})

\* the body has the shape {key: [dict, ...]}
ShapeOK(body, key) ==
    /\ body.t = "object"
    /\ key \in DOMAIN body.o
    /\ body.o[key].t = "array"
    /\ \A n \in 1..Len(body.o[key].a) : body.o[key].a[n].t = "object"

\* the call failed: a backend error or a timeout, or a reply that is not of
\* the expected shape
CallFails(reply, key) ==
    /\ reply # NoCall
    /\ reply.kind = "error" \/ ~ShapeOK(reply.body, key)

\* the findings of the files other than x are those of the run alt
OtherFilesSame(x, alt) ==
    /\ ~alt.raised
    /\ \A y \in (1..Len(parsed_files)) \ {x} :
          EntriesOf(alt.results, alt.origin, y) = EntriesOf(an_results, an_origin, y)

\* C6: when the backend call for file X fails, analyze still returns, X
\* contributes no finding, and the findings of every other file are those of
\* the run in which the call for X was answered otherwise.
C6_FailureIsolated ==
    \A x \in 1..Len(an_replies) :
        CallFails(an_replies[x], "issues") =>
            /\ an_pc # "raised"
            /\ \A n \in 1..Len(an_origin) : an_origin[n] # x
            /\ an_pc = "done" =>
                  \A a \in AnalyzerReplies :
                      OtherFilesSame(x, analyze(agent_name, parsed_files,
                                                [an_replies EXCEPT ![x] = a]))

AnalyzerKeySet == Range(AnalyzerKeys)

RaisedKeys == {k \in DOMAIN outcomes : outcomes[k].raised}

\* the sum of the lengths of the lists the analyzers in K returned
RECURSIVE ReturnedCount(_)
ReturnedCount(K) ==
    IF K = {} THEN 0
    ELSE LET k == CHOOSE j \in K : TRUE
         IN Len(outcomes[k].value) + ReturnedCount(K \ {k})

\* a run in which exactly one analyzer raised has ended
OneRaised ==
    /\ c_pc = "done"
    /\ DOMAIN outcomes = AnalyzerKeySet
    /\ Cardinality(RaisedKeys) = 1

\* C7: when exactly one of the three analyzers raises, every finding the
\* other two returned is among the combined findings, and their number is
\* below that of the run in which the analyzer returned a list instead by at
\* most the length of that list.
C7_OneAnalyzerRaises ==
    OneRaised =>
        /\ \A j \in AnalyzerKeySet \ RaisedKeys :
              Range(outcomes[j].value) \subseteq Range(results.comments)
        /\ \A k \in RaisedKeys :
              \A o \in AnalyzerOutcomes(AgentOf[k]) \ {Raises} :
                  /\ Len(results.comments) <=
                        ReturnedCount(AnalyzerKeySet \ {k}) + Len(o.value)
                  /\ Len(results.comments) >= ReturnedCount(AnalyzerKeySet \ {k})

C7_Witness ==
    /\ OneRaised
    /\ \A j \in AnalyzerKeySet \ RaisedKeys : outcomes[j].value # <<>>
    /\ Len(results.comments) = 2

\* C8: the combined findings are the lists the three analyzers returned,
\* concatenated in the order code review, security, performance, each
\* finding as it was returned.
C8_FlatMerge ==
    (c_pc = "done" /\ DOMAIN outcomes = AnalyzerKeySet) =>
        results.comments =
            outcomes["code_review"].value \o outcomes["security"].value
                \o outcomes["performance"].value

C8_Witness ==
    /\ c_pc = "done"
    /\ DOMAIN outcomes = AnalyzerKeySet
    /\ \A k \in AnalyzerKeySet : outcomes[k].value # <<>>
    /\ \A n \in 1..3 : results.comments[n].agent = Str(AgentOf[AnalyzerKeys[n]])
    /\ results.engineering_feedback # results.comments

\* C9: when the refinement call for a file fails, by a backend error or by
\* a reply that is not of the refined_issues shape, all raw findings of the
\* file are in the output of refine.
C9_RawFallback ==
    \A k \in 1..Len(rf_replies) :
        CallFails(rf_replies[k], "refined_issues") =>
            Range(issues_by_file[k].issues)
                \subseteq Range(EntriesOf(refined_results, rf_origin, k))

\* the entries of the files other than x are those of the run alt, and the
\* request for each of them was sent in both runs
OtherGroupsSame(x, alt) ==
    \A y \in (1..Len(issues_by_file)) \ {x} :
        /\ EntriesOf(alt.results, alt.origin, y)
              = EntriesOf(refined_results, rf_origin, y)
        /\ issues_by_file[y].file \in Range(alt.calls)
        /\ issues_by_file[y].file \in Range(rf_calls)

\* the loop of refine has ended
RefineLoopDone ==
    /\ c_pc \in {"combine", "done"}
    /\ issues_by_file # <<>>

\* C10: the entries of refine's output that belong to a file Y are the same
\* whatever the reply to the refinement call of another file X is, a failure
\* or a success, and the call for Y is made.
C10_RefineFrame ==
    RefineLoopDone =>
        \A x \in 1..Len(issues_by_file) :
            \A a \in RefineReplies :
                OtherGroupsSame(x, refine(issues_by_file,
                                          [rf_replies EXCEPT ![x] = a]))

C10_Witness ==
    /\ RefineLoopDone
    /\ Len(issues_by_file) = 2
    /\ rf_replies[1] = BackendError
    /\ ShapeOK(rf_replies[2].body, "refined_issues")
    /\ EntriesOf(refined_results, rf_origin, 2) # <<>>
    /\ EntriesOf(refined_results, rf_origin, 1) = issues_by_file[1].issues

(***************************************************************************)
(* Properties of the parser: file headers and attribution.                 *)
(***************************************************************************)
\* the indexes of the lines that begin with 'diff --git'
MarkerLines(ls) == {k \in 1..Len(ls) : StartsWith(ls[k], W_diff_git)}

\* the number of 'diff --git' lines up to line k
MarkerRank(ls, k) == Cardinality({j \in MarkerLines(ls) : j <= k})

UnknownName == <<"u", "n", "k", "n", "o", "w", "n">>

\* C19: a 'diff --git' line that does not match the two-path pattern still
\* starts a record, the record of its section, whose filename is 'unknown'.
C19_UnknownSentinel ==
    pc = "done" =>
        \A k \in MarkerLines(lines) :
            ~FileRegex(lines[k]).ok =>
                /\ MarkerRank(lines, k) <= Len(result)
                /\ result[MarkerRank(lines, k)].filename = UnknownName

\* the last line of the section that the 'diff --git' line k opens
SectionEnd(ls, k) ==
    Least({j \in k..Len(ls) : j = Len(ls) \/ (j + 1) \in MarkerLines(ls)})

\* the lines that follow the 'diff --git' line k in its section
SectionOf(ls, k) == SubSeq(ls, k + 1, SectionEnd(ls, k))

\* the record of a section parsed on its own, under a header that matches
SectionRecord(sec) == parse_unified_diff(<<L_file_x>> \o sec).files[1]

SameAttribution(rec, alone) ==
    /\ rec.hunks = alone.hunks
    /\ rec.status = alone.status

\* all 'diff --git' lines of the text match the two-path pattern
AllHeadersMatch(ls) == \A k \in MarkerLines(ls) : FileRegex(ls[k]).ok

\* C20: the n-th record holds the hunks and the status of the section of the
\* n-th 'diff --git' line, those the lines of that section give on their
\* own, and nothing of another section.
C20_NearestHeader ==
    pc = "done" =>
        \A n \in 1..Len(result) :
            /\ n <= MarkerCount(lines)
            /\ SameAttribution(result[n],
                   SectionRecord(SectionOf(lines, Nth(MarkerLines(lines), n))))
(***************************************************************************)
(* Claims about the summary and the rendered comment.                      *)
(***************************************************************************)
FirstFindings(comments) ==
    SubSeq(comments, 1, IF Len(comments) < 3 THEN Len(comments) ELSE 3)

\* two calls of generate_summary agree on the counts and the first findings
SameCountsAndFindings(a, b) ==
    /\ Len(a.files) = Len(b.files)
    /\ Len(a.comments) = Len(b.comments)
    /\ CountBySeverity(a.comments) = CountBySeverity(b.comments)
    /\ CountByType(a.comments) = CountByType(b.comments)
    /\ FirstFindings(a.comments) = FirstFindings(b.comments)

FallbackOf(a) ==
    generate_fallback_summary(a.comments, a.files, CountBySeverity(a.comments),
                              a.pr_metadata)

\* C11: when the backend fails, generate_summary does not raise and returns
\* a report in which the text of every failed call is a non-empty template
\* text, and the overall text is the same for every call that agrees on the
\* counts and the first findings.
C11_FallbackTemplate ==
    /\ (s_pc = "raised" => ~HasAttributes(s_args.comments))
    /\ s_pc = "done" =>
          /\ \A k \in 1..Len(s_report.files_review) :
                s_replies[k].kind # "text" =>
                   /\ s_report.files_review[k].review # <<>>
                   /\ s_report.files_review[k].review =
                         FileFallback(FileComments(s_args.comments,
                                                   s_args.files[k].filename))
          /\ s_replies[Len(s_replies)].kind # "text" =>
                /\ s_report.summary # <<>>
                /\ \A b \in SummaryInputs :
                      SameCountsAndFindings(s_args, b) =>
                         FallbackOf(b) = s_report.summary

\* C12: a report without findings is rendered with the line 'No issues
\* found' and without a section of a file.
C12_NoIssuesLine ==
    s_pc = "done" /\ s_report.total_issues_found = 0 =>
       /\ P_NoIssues \in Range(format_review_comment(s_report))
       /\ P_FileHead \notin Range(format_review_comment(s_report))

(***************************************************************************)
(* Claims about a review run.                                              *)
(***************************************************************************)
\* the run is past the parsing of a fetched diff
Parsed == diff_content # <<>> /\ r_pc # "parse"

\* C13: a run that ended with an error ended in the fetching or the parsing
\* stage; generate_summary does not raise in a run.
C13_FailedOnlyEarly ==
    /\ r_pc = "failed" => failed_at \in {"Fetching", "Parsing"}
    /\ r_pc = "summarize" => s_pc # "raised"

\* a run returned a report although every analyzer raised and a call of the
\* summary to the backend failed
C13_Witness ==
    /\ r_pc = "returned"
    /\ parsed_files # <<>>
    /\ \A k \in DOMAIN NextOf : k \in DOMAIN outcomes /\ outcomes[k].raised
    /\ \E k \in 1..Len(s_replies) : s_replies[k].kind = "error"

\* C14: a run does not end with an error in the fetching stage.
C14_FetchAbsorbed == ~(r_pc = "failed" /\ failed_at = "Fetching")

NoFileParsed(text) ==
    /\ ~parse_unified_diff(text).raised
    /\ parse_unified_diff(text).files = <<>>

\* C15: after a diff that parses to no file the run has returned the review
\* without files and with the summary 'No code changes detected', no
\* analyzer and no summary has run, and no comment was posted.
C15_NoChanges ==
    Parsed /\ NoFileParsed(diff_content) =>
       /\ r_pc = "returned"
       /\ r_return.review.files = <<>>
       /\ r_return.review.summary = <<Str("No code changes detected")>>
       /\ ~r_return.comment_posted
       /\ DOMAIN outcomes = {}
       /\ c_pc = "idle"
       /\ s_pc = "idle"
       /\ post_requests = <<>>

\* the run of the empty diff text returned, with a comment asked for
C15_Witness ==
    /\ r_pc = "returned"
    /\ diff_content = <<L_empty>>
    /\ post_comment

\* C16: a run whose diff parsed to at least one file eventually returns a
\* report with a non-empty summary and one review per parsed file.
C16_EventuallyReport ==
    (r_pc = "analyze") ~>
       (/\ r_pc = "returned"
        /\ parsed_files # <<>>
        /\ r_return.review.summary # <<>>
        /\ Len(r_return.review.files_review) = Len(parsed_files))

\* C17: a process with a credential missing has failed at startup.
C17_CredentialsAtStartup ==
    r_pc # "boot" /\ ~(env.github_token /\ env.gemini_api_key) =>
       r_pc = "startup_failed"

\* C18: a call that runs while another call runs returns what it returns
\* alone.
C18_NoInterference ==
    \A run \in RunIds :
       runs.pc[run] = "returned" =>
          runs.ret[run] = RunAlone(runs.input[run])

\* two calls with different PRs and different diffs, both with files, have
\* returned after steps of one fell between the steps of the other
C18_Witness ==
    /\ runs.mixed
    /\ \A run \in RunIds : runs.pc[run] = "returned"
    /\ runs.input[1].title # runs.input[2].title
    /\ runs.input[1].text = ScenarioDiff
    /\ runs.input[2].text = TwoFileDiff

(***************************************************************************)
(* Claims about the counts, the requests and the stages of a run.          *)
(***************************************************************************)
\* C21: in every FilePatch the parser returns, additions is the number of
\* lines of its hunks with change_type 'add' and deletions the number with
\* 'remove': the counts the summary makes from the hunks (lines 109-112) are
\* the running totals of the parser.
C21_CountsMatch ==
    pc = "done" =>
       \A n \in 1..Len(result) :
          /\ result[n].additions = CountLines(result[n].hunks, "add")
          /\ result[n].deletions = CountLines(result[n].hunks, "remove")

\* a returned file with a removed and an added line counted
C21_Witness ==
    /\ pc = "done"
    /\ \E n \in 1..Len(result) :
          result[n].additions >= 1 /\ result[n].deletions >= 1

\* the file at index k is a dict without added lines
NoAddedLines(k) ==
    /\ parsed_files[k].t = "dict"
    /\ Get(parsed_files[k].v, "added_lines", <<>>) = <<>>

\* C23: no request is sent for a file without added lines, and no finding
\* comes from it.
C23_NoRequestWithoutAdditions ==
    \A k \in 1..Len(parsed_files) :
       NoAddedLines(k) => k \notin Range(an_calls) /\ k \notin Range(an_origin)

\* analyze returned after a file without added lines and a file that was
\* sent
C23_Witness ==
    /\ an_pc = "done"
    /\ an_calls # <<>>
    /\ \E k \in 1..Len(parsed_files) : NoAddedLines(k)

\* C27: every finding of analyze has the name of the analyzer as its agent
\* and the name of the file whose turn made it as its file.
C27_TaggedWithOwnName ==
    \A n \in 1..Len(an_results) :
       /\ an_results[n]["agent"] = Str(agent_name)
       /\ an_results[n]["file"] =
             Str(Get(parsed_files[an_origin[n]].v, "file_name", "unknown"))

RECURSIVE IssuesCounted(_)
IssuesCounted(reviews) ==
    IF reviews = <<>> THEN 0
    ELSE Head(reviews).issues_count + IssuesCounted(Tail(reviews))

\* C30: in a report of generate_summary the issue counts of the files add
\* up to total_issues_found.
C30_CountsAddUp ==
    s_pc = "done" =>
       IssuesCounted(s_report.files_review) = s_report.total_issues_found


(***************************************************************************)
(* C28: a returned run says comment_posted exactly when the posting was    *)
(* requested, the diff parsed to at least one file and the request to post *)
(* was answered; a request to post that fails leaves the run returned,     *)
(* never failed, and the review it returns is the report of the summary,   *)
(* the one a run that was not asked to post returns.                       *)
(***************************************************************************)
PostAnswered == post_requests # <<>> /\ post_requests[Len(post_requests)].ok

C28_PostedExactlyWhenSent ==
    /\ r_pc = "returned" =>
          /\ r_return.comment_posted <=>
                (post_comment /\ parsed_files # <<>> /\ PostAnswered)
          /\ parsed_files # <<>> =>
                /\ r_return.review = s_report
                /\ Len(post_requests) = (IF post_comment THEN 1 ELSE 0)
    /\ post_requests # <<>> => r_pc = "returned"

\* a run whose request to post failed has returned its review
C28_Witness ==
    /\ r_pc = "returned"
    /\ post_comment
    /\ post_requests # <<>>
    /\ ~post_requests[1].ok
    /\ ~r_return.comment_posted
    /\ r_return.review = s_report

(***************************************************************************)
(* C25: when the refinement or the combining is reached, each of the three *)
(* analyzers has completed its call, by returning or by raising, and the   *)
(* results hold what each of the three calls gave; the summary is started  *)
(* only when _run_all_agents has finished.                                 *)
(***************************************************************************)
Aggregating == c_pc \in {"refine", "refine_loop", "combine", "done"}

C25_AggregationAfterAnalyzers ==
    /\ Aggregating =>
          /\ DOMAIN outcomes = Range(AnalyzerKeys)
          /\ \A k \in DOMAIN outcomes :
                results[k] = safe_agent_call(outcomes[k]).value
    /\ s_pc # "idle" => c_pc = "done"
    /\ c_pc \in DOMAIN NextOf => results.comments = <<>> /\ s_pc = "idle"

\* the summary runs after the three analyzers completed
C25_Witness ==
    /\ r_pc = "summarize"
    /\ s_pc = "files"
    /\ c_pc = "done"
    /\ DOMAIN outcomes = Range(AnalyzerKeys)

(***************************************************************************)
(* C29: the comments _run_all_agents hands on are the same whatever the    *)
(* refinement gave: replacing engineering_feedback by nothing (the         *)
(* refinement failed or found nothing) or by any other list of findings    *)
(* leaves the combined comments what they are.                             *)
(***************************************************************************)
OtherFeedback == {<<>>, results.code_review, AllIssues(results)}

C29_RefinementIgnored ==
    c_pc = "done" =>
       \A fb \in OtherFeedback :
          AllComments([results EXCEPT !.engineering_feedback = fb])
             = results.comments

\* a run in which the refinement returned findings that differ from the
\* comments handed on
C29_Witness ==
    /\ c_pc = "done"
    /\ results.comments # <<>>
    /\ results.engineering_feedback # <<>>
    /\ results.engineering_feedback # results.comments

(***************************************************************************)
(* C26: once the parser has returned, the files of the run stay what the   *)
(* parser returned: through the analyzers, the refinement, the summary,    *)
(* the rendering and the posting, the list handed to the analyzers and the *)
(* list the summary holds are the files parse_unified_diff gave for the    *)
(* diff, with their hunks, lines and counts.                               *)
(***************************************************************************)
AfterParser == r_pc \in {"analyze", "summarize", "returned"} /\ parsed_files # <<>>

ParserReturned == PatchList(parse_unified_diff(diff_content).files)

C26_FilesUnchanged ==
    AfterParser =>
       /\ parsed_files = ParserReturned
       /\ s_pc # "idle" => s_args.files = Untag(ParserReturned)

\* a run returned after the summary reviewed two files
C26_Witness ==
    /\ r_pc = "returned"
    /\ Len(parsed_files) >= 2
    /\ Len(files_review) = Len(parsed_files)
    /\ \E n \in 1..Len(parsed_files) : parsed_files[n].v.hunks # <<>>

(***************************************************************************)
(* C22: in a review run whose diff parses to a file with an added line of  *)
(* text, when the three analyzers have run, each of them has sent a        *)
(* request for that file to the backend.                                   *)
(***************************************************************************)
HasAddedText(file_patch) ==
    \E h \in 1..Len(file_patch.hunks) :
       \E n \in 1..Len(file_patch.hunks[h].lines) :
          /\ file_patch.hunks[h].lines[n].change_type = "add"
          /\ \E k \in 1..Len(file_patch.hunks[h].lines[n].content) :
                ~IsSpace(file_patch.hunks[h].lines[n].content[k])

C22_AnalyzersAsk ==
    r_pc \in {"summarize", "returned"} =>
       \A k \in 1..Len(parsed_files) :
          HasAddedText(parsed_files[k].v) =>
             \A key \in Range(AnalyzerKeys) :
                [agent |-> AgentOf[key], file |-> k] \in Range(requests)

(***************************************************************************)
(* C24: in one call of _run_all_agents no analyzer sends two requests for  *)
(* the same file, and the refinement sends no two requests for the same    *)
(* file: a request that failed is not sent again.                          *)
(***************************************************************************)
NoRepeat(s) == \A m, n \in 1..Len(s) : s[m] = s[n] => m = n

C24_OneRequestPerFile ==
    /\ NoRepeat(requests)
    /\ NoRepeat(rf_calls)
    /\ \A n \in 1..Len(requests) : requests[n].file \in 1..Len(parsed_files)
    /\ Len(rf_calls) <= Len(issues_by_file)

\* the run is over, a request of an analyzer and one of the refinement
\* failed, and another analyzer was answered for the same file
C24_Witness ==
    /\ c_pc = "done"
    /\ BackendError \in Range(rf_replies)
    /\ \E n \in 1..Len(parsed_files) :
          /\ outcomes["code_review"].value = <<>>
          /\ [agent |-> AgentOf["code_review"], file |-> n] \in Range(requests)
          /\ outcomes["security"].value # <<>>
====
